---- MODULE Spec2Model ----
(***************************************************************************)
(* Model of the ECC dispatch engine of libica (src/src/s390_ecc.c):        *)
(* the hardware-tier entry points ecdh_hw, ecdsa_sign_hw, ecdsa_verify_hw  *)
(* and eckeygen_hw, the CPACF instruction adapters they try first and the  *)
(* CCA coprocessor request/reply exchange they fall through to.            *)
(*                                                                         *)
(* One call is in progress at a time; pc is the position of that call.     *)
(* Memory contents are abstracted to content classes ("zero", "operand",   *)
(* "secret", "rand", "result"), lengths and status codes are integers.     *)
(***************************************************************************)
EXTENDS Integers, Sequences, FiniteSets, TLC

(* errno values returned by the entry points *)
EIO == 5
ENOMEM == 12
EFAULT == 14
EACCES == 13
ENODEV == 19
EINVAL == 22

(* marker for "has not returned yet" in rc fields *)
NoRc == 0 - 1

(* adapter handle sentinel and the reason code of a failed verification *)
DRIVER_NOT_LOADED == "DRIVER_NOT_LOADED"
RS_SIGNATURE_INVALID == 429

(* bounds of the model *)
MaxCalls == 2
MaxAttempts == 3
MaxShort == 1
NThreads == 2
MaxDomainCalls == 2

ValidHandle == "fd"
Handles == {DRIVER_NOT_LOADED, ValidHandle}

(* curve identifiers: the three NIST primes, the Edwards and Montgomery    *)
(* curves, one Brainpool curve (coprocessor only) and one unknown nid.     *)
Curves == {"P256", "P384", "P521", "ED25519", "ED448", "X25519", "X448",
           "BP256", "UNKNOWN"}

HwOps == {"ecdh_hw", "ecdsa_sign_hw", "ecdsa_verify_hw", "eckeygen_hw"}
DirectOps == {"scalar_mulx_cpacf", "ecdsa_sign_cpacf"}
Ops == HwOps \cup DirectOps
SwOps == {"ecdh_sw", "ecdsa_sign_sw", "ecdsa_verify_sw", "eckeygen_sw"}

(* values the kernel can show in /sys/bus/ap/ap_domain: -1 while no        *)
(* default domain is selected, else a domain index                         *)
ApDomainValues == {0 - 1, 0, 5}

(* by how many bytes the natural encoding of a number the arithmetic       *)
(* library returns can be shorter than the curve's byte length             *)
ShortBy == 0 .. MaxShort

(* random values the deterministic callback can deliver *)
RandValues == {1, 2}

(* condition codes a CPACF instruction can end with: 0 accepted *)
ConditionCodes == {0, 1, 2}

(* byte length of a scalar of the curve, -1 for an unknown nid *)
privlen_from_nid(n) ==
  CASE n = "P256" -> 32
    [] n = "P384" -> 48
    [] n = "P521" -> 66
    [] n = "ED25519" -> 32
    [] n = "ED448" -> 57
    [] n = "X25519" -> 32
    [] n = "X448" -> 56
    [] n = "BP256" -> 32
    [] OTHER -> 0 - 1

(* coprocessor curve type: 0 prime, 1 brainpool, -1 not handled by the card *)
curve_type_from_nid(n) ==
  CASE n \in {"P256", "P384", "P521"} -> 0
    [] n = "BP256" -> 1
    [] OTHER -> 0 - 1

(* the curves each instruction adapter has a switch case for *)
scalar_mul_cpacf_curves == {"P256", "P384", "P521", "ED25519", "ED448"}
scalar_mulx_cpacf_curves == {"X25519", "X448"}
ecdsa_sign_cpacf_curves == {"P256", "P384", "P521"}
ecdsa_verify_cpacf_curves == {"P256", "P384", "P521"}
eckeygen_cpacf_curves == {"P256", "P384", "P521"}

(* fields of the parameter block of each adapter *)
scalar_mul_fields == {"res_x", "res_y", "x", "y", "scalar"}
scalar_mulx_fields == {"res_u", "u", "scalar"}
ecdsa_sign_fields == {"sig_r", "sig_s", "hash", "priv", "rand"}
ecdsa_verify_fields == {"sig_r", "sig_s", "hash", "pub_x", "pub_y"}

VARIABLES
  msa9_switch,          \* CPACF ECC instructions available
  ica_offload_enabled,  \* offload to the card is forced
  ecc_via_online_card,  \* an online card may be used for ECC
  pc,                   \* position of the call in progress
  call,                 \* inputs of the call in progress
  stage,                \* dispatcher stage: "start", "instruction", "coprocessor"
  cpu,                  \* state of the instruction adapter of this call
  req,                  \* state of the coprocessor request of this call
  out,                  \* the caller's output buffers
  rc,                   \* return code of the call, NoRc until it returns
  heap,                 \* number of request buffers allocated and not freed
  calls,                \* number of calls started
  ICA_FIPS,             \* the build defines ICA_FIPS
  OPENSSL_1_1_0,        \* the build has OPENSSL_VERSION_NUMBER >= 0x10100000L
  fips,                 \* fips & ICA_FIPS_MODE is set
  FIPS_mode,            \* what the library's FIPS_mode() answers
  lib,                  \* the software-tier call's use of the library
  domain,               \* the static short of get_default_domain
  ap_domain,            \* the value the file /sys/bus/ap/ap_domain holds
  fopens,               \* times the file was opened since the last call began
  thr,                  \* the threads inside get_default_domain
  mem                   \* byte-level memory of a scalar_mulx_cpacf call

vars == <<msa9_switch, ica_offload_enabled, ecc_via_online_card, pc, call,
          stage, cpu, req, out, rc, heap, calls, ICA_FIPS, OPENSSL_1_1_0,
          fips, FIPS_mode, lib, domain, ap_domain, fopens, thr, mem>>

flags == <<msa9_switch, ica_offload_enabled, ecc_via_online_card,
           ICA_FIPS, OPENSSL_1_1_0, fips, FIPS_mode>>

dom == <<domain, ap_domain, fopens, thr>>

(* pubPresent: the private key carries X and Y *)
NoCall == [op |-> "none", nid |-> "UNKNOWN", adapter_handle |-> DRIVER_NOT_LOADED,
           rng_cb |-> FALSE, pubPresent |-> FALSE]

(* adapter: which adapter ran; param: the parameter block (field -> class); *)
(* rc: the adapter's return code; invocations: instruction invocations,     *)
(* saturating; randK: the random value in param.rand (0 none); fresh: the   *)
(* value was drawn after the last invocation; sigK: the random value of the *)
(* signature held in sig_r/sig_s (0 none, -1 hardware-internal).            *)
NoParam == [f \in {} |-> "zero"]

NoCpu == [adapter |-> "none", param |-> NoParam, rc |-> NoRc, invocations |-> 0,
          randK |-> 0, fresh |-> FALSE, sigK |-> 0, returned |-> FALSE]

(* buf: "none", "allocated", "zeroed", "populated", "wiped", "freed";       *)
(* zeroed: memset ran before anything was written; submitted: ioctl calls;  *)
(* ioctl_rc: result of the ioctl (NoRc before); reply: what the card stored *)
NoReply == [key_len |-> 0, vud_len |-> 0, ccp_rtcode |-> 0, ccp_rscode |-> 0,
            formatted_data_len |-> 0, compress_flag |-> 0, section_len |-> 0]

(***************************************************************************)
(* Sizes of the request structures.  The structures are packed; a token    *)
(* structure is the sequence of its members.                               *)
(***************************************************************************)
CPRBXSIZE == 220
PARMBSIZE == 2048

sizeof ==
  LET CCA_TOKEN_HDR == 8
      ECC_PRIVATE_KEY_SECTION == 76
      ECC_ASSOCIATED_DATA == 16
      ECC_PUBLIC_KEY_SECTION == 14
      ECC_PUBLIC_KEY_TOKEN == ECC_PUBLIC_KEY_SECTION + 1
  IN [CCA_TOKEN_HDR |-> CCA_TOKEN_HDR,
      ECC_PRIVATE_KEY_SECTION |-> ECC_PRIVATE_KEY_SECTION,
      ECC_ASSOCIATED_DATA |-> ECC_ASSOCIATED_DATA,
      ECC_PUBLIC_KEY_SECTION |-> ECC_PUBLIC_KEY_SECTION,
      ECC_PUBLIC_KEY_TOKEN |-> ECC_PUBLIC_KEY_TOKEN,
      ECC_PRIVATE_KEY_TOKEN |-> 2 + 2 + CCA_TOKEN_HDR + ECC_PRIVATE_KEY_SECTION
                                  + ECC_ASSOCIATED_DATA,
      ECDSA_PUBLIC_KEY_BLOCK |-> 2 + 2 + CCA_TOKEN_HDR + ECC_PUBLIC_KEY_TOKEN,
      ECKEYGEN_KEY_TOKEN |-> 2 + 2 + CCA_TOKEN_HDR + ECC_PRIVATE_KEY_SECTION
                               + ECC_ASSOCIATED_DATA + ECC_PUBLIC_KEY_SECTION,
      ECC_KEYBLOCK_LENGTH |-> 2,
      ECDH_NULLKEY |-> 68,
      ECC_NULL_TOKEN |-> 5,
      ECDH_PARMBLOCK |-> 32,
      ECDSA_PARMBLOCK_PART1 |-> 16,
      ECDSA_PARMBLOCK_PART2 |-> 2,
      ECKEYGEN_PARMBLOCK |-> 14]

(* hash lengths a caller passes to sign and verify *)
HashLengths == {20, 64, PARMBSIZE}

(***************************************************************************)
(* The key tokens.  A token is described by what the builder returns       *)
(* (ret: the bytes the token occupies, which the caller adds to its        *)
(* offset), the length fields it stores, the bit-length fields it stores   *)
(* (bitlens, by field) and the bytes of key material it copies in.         *)
(***************************************************************************)

(* make_ecdh_key_token: private key of A and public key of B *)
make_ecdh_key_token(nid) ==
  LET privlen == privlen_from_nid(nid)
      this_length == sizeof.ECC_PRIVATE_KEY_TOKEN + privlen
                       + sizeof.ECC_PUBLIC_KEY_TOKEN + 2 * privlen
      ecdhkey_length == 2 + 2 + sizeof.CCA_TOKEN_HDR
                          + sizeof.ECC_PRIVATE_KEY_SECTION
                          + sizeof.ECC_ASSOCIATED_DATA + privlen
                          + sizeof.ECC_PUBLIC_KEY_TOKEN + 2 * privlen
      priv_bitlen == IF nid = "P521" THEN 521 ELSE privlen * 8
  IN [ret |-> this_length,
      key_len |-> ecdhkey_length,
      tkn_length |-> ecdhkey_length - 2 - 2,
      privsec_section_len |-> sizeof.ECC_PRIVATE_KEY_SECTION
                                + sizeof.ECC_ASSOCIATED_DATA + privlen,
      formatted_data_len |-> privlen,
      pubsec_section_len |-> sizeof.ECC_PUBLIC_KEY_TOKEN + 2 * privlen,
      pub_q_bytelen |-> 2 * privlen + 1,
      bitlens |-> [f \in {"priv_p_bitlen", "adata_p_bitlen", "pub_p_bitlen"}
                     |-> priv_bitlen],
      privkey_bytes |-> privlen,
      pubkey_bytes |-> privlen + privlen,
      fixed_priv |-> sizeof.ECC_PRIVATE_KEY_SECTION + sizeof.ECC_ASSOCIATED_DATA,
      fixed_pub |-> sizeof.ECC_PUBLIC_KEY_TOKEN]

(* make_ecdsa_private_key_token: private key and its public point X, Y *)
make_ecdsa_private_key_token(nid) ==
  LET privlen == privlen_from_nid(nid)
      ecdsakey_length == 2 + 2 + sizeof.CCA_TOKEN_HDR
                           + sizeof.ECC_PRIVATE_KEY_SECTION
                           + sizeof.ECC_ASSOCIATED_DATA + privlen
                           + sizeof.ECC_PUBLIC_KEY_TOKEN + 2 * privlen
      priv_bitlen == IF nid = "P521" THEN 521 ELSE privlen * 8
  IN [ret |-> sizeof.ECC_PRIVATE_KEY_TOKEN + privlen
                + sizeof.ECC_PUBLIC_KEY_TOKEN + 2 * privlen,
      key_len |-> ecdsakey_length,
      tkn_length |-> ecdsakey_length - 2 - 2,
      privsec_section_len |-> sizeof.ECC_PRIVATE_KEY_SECTION
                                + sizeof.ECC_ASSOCIATED_DATA + privlen,
      formatted_data_len |-> privlen,
      pubsec_section_len |-> sizeof.ECC_PUBLIC_KEY_TOKEN + 2 * privlen,
      pub_q_bytelen |-> 2 * privlen + 1,
      bitlens |-> [f \in {"priv_p_bitlen", "adata_p_bitlen", "pub_p_bitlen"}
                     |-> priv_bitlen],
      privkey_bytes |-> privlen,
      pubkey_bytes |-> privlen + privlen,
      fixed_priv |-> sizeof.ECC_PRIVATE_KEY_SECTION + sizeof.ECC_ASSOCIATED_DATA,
      fixed_pub |-> sizeof.ECC_PUBLIC_KEY_TOKEN]

(* variant: the bit length is always eight times the byte length *)
make_ecdsa_public_key_token_bytes8(nid) ==
  LET privlen == privlen_from_nid(nid)
      this_length == sizeof.ECDSA_PUBLIC_KEY_BLOCK + 2 * privlen
      priv_bitlen == privlen * 8
  IN [ret |-> this_length,
      key_len |-> this_length,
      tkn_length |-> this_length - 2 - 2,
      privsec_section_len |-> 0,
      formatted_data_len |-> 0,
      pubsec_section_len |-> sizeof.ECC_PUBLIC_KEY_TOKEN + 2 * privlen,
      pub_q_bytelen |-> 2 * privlen + 1,
      bitlens |-> [f \in {"pub_p_bitlen"} |-> priv_bitlen],
      privkey_bytes |-> 0,
      pubkey_bytes |-> privlen + privlen,
      fixed_priv |-> 0,
      fixed_pub |-> sizeof.ECC_PUBLIC_KEY_TOKEN]

(* make_ecdsa_public_key_token: the public point only *)
make_ecdsa_public_key_token(nid) ==
  LET privlen == privlen_from_nid(nid)
      this_length == sizeof.ECDSA_PUBLIC_KEY_BLOCK + 2 * privlen
      priv_bitlen == IF nid = "P521" THEN 521 ELSE privlen * 8
  IN [ret |-> this_length,
      key_len |-> this_length,
      tkn_length |-> this_length - 2 - 2,
      privsec_section_len |-> 0,
      formatted_data_len |-> 0,
      pubsec_section_len |-> sizeof.ECC_PUBLIC_KEY_TOKEN + 2 * privlen,
      pub_q_bytelen |-> 2 * privlen + 1,
      bitlens |-> [f \in {"pub_p_bitlen"} |-> priv_bitlen],
      privkey_bytes |-> 0,
      pubkey_bytes |-> privlen + privlen,
      fixed_priv |-> 0,
      fixed_pub |-> sizeof.ECC_PUBLIC_KEY_TOKEN]

(* make_eckeygen_private_key_token: a skeleton without key material *)
make_eckeygen_private_key_token(nid) ==
  LET privlen == privlen_from_nid(nid)
      priv_bitlen == IF nid = "P521" THEN 521 ELSE privlen * 8
  IN [ret |-> sizeof.ECKEYGEN_KEY_TOKEN,
      key_len |-> sizeof.ECKEYGEN_KEY_TOKEN,
      tkn_length |-> sizeof.ECKEYGEN_KEY_TOKEN - 2 - 2,
      privsec_section_len |-> sizeof.ECC_PRIVATE_KEY_SECTION
                                + sizeof.ECC_ASSOCIATED_DATA,
      formatted_data_len |-> 0,
      pubsec_section_len |-> sizeof.ECC_PUBLIC_KEY_SECTION,
      pub_q_bytelen |-> 0,
      bitlens |-> [f \in {"priv_p_bitlen", "adata_p_bitlen", "pub_p_bitlen"}
                     |-> priv_bitlen],
      privkey_bytes |-> 0,
      pubkey_bytes |-> 0,
      fixed_priv |-> sizeof.ECC_PRIVATE_KEY_SECTION + sizeof.ECC_ASSOCIATED_DATA,
      fixed_pub |-> sizeof.ECC_PUBLIC_KEY_SECTION]

(***************************************************************************)
(* The requests.  req_parml is the parameter length stored in the header,  *)
(* offset the position after the last part written (the parts are written *)
(* one after the other, each at the offset the parts before it returned),  *)
(* parmblock the bytes of the parameter block, keyblock_len the stored     *)
(* key-block length, tokens the key tokens and fillers the bytes of each   *)
(* null-key or null token written after them.                              *)
(***************************************************************************)
NoLens == [req_parml |-> 0, offset |-> 0, parmblock |-> 0, keyblock_len |-> 0,
           tokens |-> <<>>, fillers |-> <<>>, request_control_blk_length |-> 0]

(* variant: the key-block length counts three null keys *)
make_ecdh_request_three_nullkeys(nid) ==
  LET privlen == privlen_from_nid(nid)
      ecdh_key_token_len == 2 + 2 + sizeof.CCA_TOKEN_HDR
                              + sizeof.ECC_PRIVATE_KEY_SECTION
                              + sizeof.ECC_ASSOCIATED_DATA + privlen
                              + sizeof.ECC_PUBLIC_KEY_TOKEN + 2 * privlen
      keyblock_len == 2 + 2 * ecdh_key_token_len + 3 * sizeof.ECDH_NULLKEY
      parmblock_len == sizeof.ECDH_PARMBLOCK + keyblock_len
      token == make_ecdh_key_token(nid)
      offset == CPRBXSIZE + sizeof.ECDH_PARMBLOCK + sizeof.ECC_KEYBLOCK_LENGTH
                  + token.ret + sizeof.ECDH_NULLKEY + token.ret
                  + sizeof.ECDH_NULLKEY + sizeof.ECDH_NULLKEY + sizeof.ECDH_NULLKEY
  IN [req_parml |-> parmblock_len,
      offset |-> offset,
      parmblock |-> sizeof.ECDH_PARMBLOCK,
      keyblock_len |-> keyblock_len,
      tokens |-> <<token, token>>,
      fillers |-> <<sizeof.ECDH_NULLKEY, sizeof.ECDH_NULLKEY, sizeof.ECDH_NULLKEY,
                    sizeof.ECDH_NULLKEY>>,
      request_control_blk_length |-> CPRBXSIZE + parmblock_len]

(* make_ecdh_request: header, parameter block, key-block length, key       *)
(* token, null key, key token, three null keys                             *)
make_ecdh_request(nid) ==
  LET privlen == privlen_from_nid(nid)
      ecdh_key_token_len == 2 + 2 + sizeof.CCA_TOKEN_HDR
                              + sizeof.ECC_PRIVATE_KEY_SECTION
                              + sizeof.ECC_ASSOCIATED_DATA + privlen
                              + sizeof.ECC_PUBLIC_KEY_TOKEN + 2 * privlen
      keyblock_len == 2 + 2 * ecdh_key_token_len + 4 * sizeof.ECDH_NULLKEY
      parmblock_len == sizeof.ECDH_PARMBLOCK + keyblock_len
      token == make_ecdh_key_token(nid)
      offset == CPRBXSIZE + sizeof.ECDH_PARMBLOCK + sizeof.ECC_KEYBLOCK_LENGTH
                  + token.ret + sizeof.ECDH_NULLKEY + token.ret
                  + sizeof.ECDH_NULLKEY + sizeof.ECDH_NULLKEY + sizeof.ECDH_NULLKEY
  IN [req_parml |-> parmblock_len,
      offset |-> offset,
      parmblock |-> sizeof.ECDH_PARMBLOCK,
      keyblock_len |-> keyblock_len,
      tokens |-> <<token, token>>,
      fillers |-> <<sizeof.ECDH_NULLKEY, sizeof.ECDH_NULLKEY, sizeof.ECDH_NULLKEY,
                    sizeof.ECDH_NULLKEY>>,
      request_control_blk_length |-> CPRBXSIZE + parmblock_len]

(* make_ecdsa_sign_request: header, parameter block with the hash,         *)
(* key-block length, private key token                                     *)
make_ecdsa_sign_request(nid, hash_length) ==
  LET privlen == privlen_from_nid(nid)
      ecdsa_key_token_len == 2 + 2 + sizeof.CCA_TOKEN_HDR
                               + sizeof.ECC_PRIVATE_KEY_SECTION
                               + sizeof.ECC_ASSOCIATED_DATA + privlen
                               + sizeof.ECC_PUBLIC_KEY_TOKEN + 2 * privlen
      keyblock_len == 2 + ecdsa_key_token_len
      parmblock_len == sizeof.ECDSA_PARMBLOCK_PART1 + hash_length + keyblock_len
      token == make_ecdsa_private_key_token(nid)
      make_ecdsa_sign_parmblock == sizeof.ECDSA_PARMBLOCK_PART1 + hash_length
      offset == CPRBXSIZE + make_ecdsa_sign_parmblock + sizeof.ECC_KEYBLOCK_LENGTH
                  + token.ret
  IN [req_parml |-> parmblock_len,
      offset |-> offset,
      parmblock |-> make_ecdsa_sign_parmblock,
      keyblock_len |-> keyblock_len,
      tokens |-> <<token>>,
      fillers |-> <<>>,
      request_control_blk_length |-> CPRBXSIZE + parmblock_len]

(* make_ecdsa_verify_request: header, parameter block with the hash and    *)
(* the signature, key-block length, public key token                       *)
make_ecdsa_verify_request(nid, hash_length) ==
  LET privlen == privlen_from_nid(nid)
      ecdsa_key_token_len == 2 + 2 + sizeof.CCA_TOKEN_HDR
                               + sizeof.ECC_PUBLIC_KEY_TOKEN + 2 * privlen
      keyblock_len == 2 + ecdsa_key_token_len
      parmblock_len == sizeof.ECDSA_PARMBLOCK_PART1 + hash_length
                         + sizeof.ECDSA_PARMBLOCK_PART2 + 2 * privlen + keyblock_len
      token == make_ecdsa_public_key_token(nid)
      signature_len == 2 * privlen
      make_ecdsa_verify_parmblock == sizeof.ECDSA_PARMBLOCK_PART1 + hash_length
                                       + sizeof.ECDSA_PARMBLOCK_PART2 + signature_len
      offset == CPRBXSIZE + make_ecdsa_verify_parmblock
                  + sizeof.ECC_KEYBLOCK_LENGTH + token.ret
  IN [req_parml |-> parmblock_len,
      offset |-> offset,
      parmblock |-> make_ecdsa_verify_parmblock,
      keyblock_len |-> keyblock_len,
      tokens |-> <<token>>,
      fillers |-> <<>>,
      request_control_blk_length |-> CPRBXSIZE + parmblock_len]

(* make_eckeygen_request: header, parameter block, key-block length, key   *)
(* token skeleton, null token                                              *)
make_eckeygen_request(nid) ==
  LET keyblock_len == 2 + sizeof.ECKEYGEN_KEY_TOKEN + sizeof.ECC_NULL_TOKEN
      parmblock_len == sizeof.ECKEYGEN_PARMBLOCK + keyblock_len
      token == make_eckeygen_private_key_token(nid)
      offset == CPRBXSIZE + sizeof.ECKEYGEN_PARMBLOCK + sizeof.ECC_KEYBLOCK_LENGTH
                  + token.ret + sizeof.ECC_NULL_TOKEN
  IN [req_parml |-> parmblock_len,
      offset |-> offset,
      parmblock |-> sizeof.ECKEYGEN_PARMBLOCK,
      keyblock_len |-> keyblock_len,
      tokens |-> <<token>>,
      fillers |-> <<sizeof.ECC_NULL_TOKEN>>,
      request_control_blk_length |-> CPRBXSIZE + parmblock_len]

(* malloc_failed: malloc returned NULL; pub: the public coordinates the    *)
(* key token carries ("none", "caller": X and Y of the caller's private    *)
(* key, "derived": computed from D, "peer": X and Y of the other party's   *)
(* public key); pubDerived: the software point multiplication ran;         *)
(* XY: the local buffers X and Y of ecdsa_sign_hw ("unset" before          *)
(* provide_pubkey filled them); cprbx_domain: the domain field of the      *)
(* header (NoDomain before); lens: the lengths of the request built        *)
NoDomain == 0 - 2

NoReq == [buf |-> "none", zeroed |-> FALSE, wiped |-> FALSE, submitted |-> 0,
          ioctl_rc |-> NoRc, reply |-> NoReply, rc |-> NoRc, pubDerived |-> FALSE,
          malloc_failed |-> FALSE, XY |-> "unset", pub |-> "none",
          cprbx_domain |-> NoDomain, lens |-> NoLens]

(* caller's buffers: "orig" until the call writes them; Dw, Xw, Yw and     *)
(* sigw list the writes made to key->D, key->X, key->Y and the signature  *)
(* buffer, in order: at is the offset of the first byte written, len the   *)
(* number of bytes, cls what was written ("zero": 0x00 padding, "value":   *)
(* the bytes of a number in its natural, shortest encoding, "field": a     *)
(* fixed-width field copied as a whole)                                    *)
OrigOut == [z |-> "orig", sig |-> "orig", D |-> "orig", X |-> "orig", Y |-> "orig",
            sigK |-> 0, Dw |-> <<>>, Xw |-> <<>>, Yw |-> <<>>, sigw |-> <<>>]

Write(at, len, cls) == [at |-> at, len |-> len, cls |-> cls]

(* the software-tier call's use of the library: method is the method     *)
(* table of the key object ("none" before the key exists, "engine" the     *)
(* table an engine may have installed, "default" the library's own);       *)
(* op: the library operation attempted ("none" before), opMethod: the      *)
(* method table in force when it was invoked, switchedAfter: the table was *)
(* switched after the operation                                            *)
NoLib == [method |-> "none", op |-> "none", opMethod |-> "none",
          switchedAfter |-> FALSE]

(* the threads that may be inside get_default_domain *)
Threads == 1 .. NThreads

(* pc: "out" outside the function, else the statement the thread is at;    *)
(* temp: the local temp (NoDomain before fscanf stored it); f: the FILE of *)
(* the call is open; ret: what the thread's last call returned (NoDomain   *)
(* before); n: calls made; late: the non-negative domain a call had        *)
(* returned before this call began (NoDomain if none had); opened: this    *)
(* call opened the file                                                    *)
NoThread == [pc |-> "out", temp |-> NoDomain, f |-> FALSE, ret |-> NoDomain, n |-> 0,
             late |-> NoDomain, opened |-> FALSE]

(* scalar_mulx_cpacf at byte level.  pc: "none" before a call, else the    *)
(* statement reached; scalar, u: the caller's buffers (scalar0, u0: as     *)
(* they were when the call began); p_res_u, p_u, p_scalar: the fields of   *)
(* param; at_pcc: param as the instruction saw and left it; res_u: the     *)
(* caller's result buffer; rc: the return code (NoRc before)               *)
NoMem == [pc |-> "none", nid |-> "UNKNOWN", scalar |-> <<>>, u |-> <<>>,
          scalar0 |-> <<>>, u0 |-> <<>>, p_res_u |-> <<>>, p_u |-> <<>>,
          p_scalar |-> <<>>, at_pcc |-> [res_u |-> <<>>, u |-> <<>>, scalar |-> <<>>], res_u |-> <<>>, rc |-> NoRc]

(* the state every specification starts from, up to its own inputs *)
InitCommon ==
  /\ pc = "idle"
  /\ call = NoCall
  /\ stage = "start"
  /\ cpu = NoCpu
  /\ req = NoReq
  /\ out = OrigOut
  /\ rc = NoRc
  /\ heap = 0
  /\ calls = 0
  /\ lib = NoLib
  /\ domain = 0 - 1
  /\ fopens = 0
  /\ thr = [t \in Threads |-> NoThread]
  /\ mem = NoMem

Init ==
  /\ msa9_switch \in BOOLEAN
  /\ ica_offload_enabled \in BOOLEAN
  /\ ecc_via_online_card \in BOOLEAN
  /\ ICA_FIPS = FALSE
  /\ OPENSSL_1_1_0 = TRUE
  /\ fips = FALSE
  /\ FIPS_mode = FALSE
  /\ ap_domain = 5
  /\ InitCommon

(* a caller enters one of the entry points ops with its arguments *)
CallOf(ops) ==
  /\ pc \in {"idle", "done"}
  /\ calls < MaxCalls
  /\ \E o \in ops, n \in Curves, h \in Handles, cb \in BOOLEAN, pp \in BOOLEAN :
       /\ (cb => o = "ecdsa_sign_cpacf")
       /\ (o \in DirectOps \cup SwOps => h = ValidHandle /\ pp)
       /\ (o \notin {"ecdsa_sign_hw", "ecdsa_sign_cpacf", "ecdh_hw"} => pp)
       /\ call' = [op |-> o, nid |-> n, adapter_handle |-> h, rng_cb |-> cb,
                   pubPresent |-> pp]
  /\ pc' = "entry"
  /\ stage' = "start"
  /\ cpu' = NoCpu
  /\ req' = NoReq
  /\ out' = OrigOut
  /\ rc' = NoRc
  /\ lib' = NoLib
  /\ calls' = calls + 1
  /\ fopens' = 0
  /\ UNCHANGED <<flags, domain, ap_domain, thr, mem, heap>>

(* a call of a hardware-tier entry point or of an instruction adapter *)
Call == CallOf(Ops)

(* (short)n *)
ToShort(n) == ((n + 32768) % 65536) - 32768

(* get_default_domain run by the one thread of a call: the cached value    *)
(* when it is not negative; else the file is opened (which can fail) and   *)
(* read (which can fail), and the value read is stored and returned.       *)
(* ret: the value returned, static_domain: the static afterwards           *)
get_default_domain(fopen_ok, fscanf_ok) ==
  IF domain >= 0
    THEN [ret |-> domain, static_domain |-> domain, fopens |-> fopens]
    ELSE IF ~fopen_ok
           THEN [ret |-> domain, static_domain |-> domain, fopens |-> fopens]
           ELSE IF ~fscanf_ok
                  THEN [ret |-> domain, static_domain |-> domain,
                        fopens |-> fopens + 1]
                  ELSE [ret |-> ToShort(ap_domain),
                        static_domain |-> ToShort(ap_domain),
                        fopens |-> fopens + 1]

(* make_cprbx: cprbx->domain = get_default_domain() *)
make_cprbx(fopen_ok, fscanf_ok) ==
  LET d == get_default_domain(fopen_ok, fscanf_ok)
  IN [domain |-> d.ret, static_domain |-> d.static_domain, fopens |-> d.fopens]

(* the function returns r to its caller *)
Return(r) ==
  /\ pc' = "done"
  /\ rc' = r

(* a parameter block with every field of fs zero *)
ZeroParam(fs) == [f \in fs |-> "zero"]

(***************************************************************************)
(* scalar_mul_cpacf: point multiplication by the PCC instruction.          *)
(***************************************************************************)

(* memset of the block, then the switch: operands are copied in for a      *)
(* supported curve, the default case sets rc = EINVAL                      *)
scalar_mul_cpacf_Marshal ==
  /\ pc = "scalar_mul_cpacf"
  /\ IF call.nid \in scalar_mul_cpacf_curves
       THEN /\ cpu' = [cpu EXCEPT !.adapter = "scalar_mul_cpacf",
                         !.param = [ZeroParam(scalar_mul_fields) EXCEPT
                                      !["x"] = "operand", !["y"] = "operand",
                                      !["scalar"] = "secret"]]
            /\ pc' = "scalar_mul_invoke"
       ELSE /\ cpu' = [cpu EXCEPT !.adapter = "scalar_mul_cpacf",
                         !.param = ZeroParam(scalar_mul_fields), !.rc = EINVAL]
            /\ pc' = "scalar_mul_cleanse"
  /\ UNCHANGED <<flags, lib, dom, mem, call, stage, req, out, rc, heap, calls>>

(* variant: the result fields are copied to the caller only when the      *)
(* instruction succeeded                                                   *)
scalar_mul_cpacf_Invoke_copy_on_success ==
  /\ pc = "scalar_mul_invoke"
  /\ \E cc \in ConditionCodes :
       LET res == IF cc = 0 THEN "result" ELSE "zero"
       IN /\ cpu' = [cpu EXCEPT !.param["res_x"] = res, !.param["res_y"] = res,
                                !.rc = IF cc # 0 THEN EIO ELSE 0,
                                !.invocations = IF @ < MaxAttempts THEN @ + 1 ELSE @]
          /\ out' = IF cc # 0 THEN out
                    ELSE IF call.op = "ecdh_hw"
                      THEN [out EXCEPT !.z = res]
                      ELSE [out EXCEPT
                              !.X = res, !.Y = res,
                              !.Xw = Append(@, Write(0, privlen_from_nid(call.nid),
                                                     "field")),
                              !.Yw = Append(@, Write(0, privlen_from_nid(call.nid),
                                                     "field"))]
  /\ pc' = "scalar_mul_cleanse"
  /\ UNCHANGED <<flags, lib, dom, mem, call, stage, req, rc, heap, calls>>

(* s390_pcc runs; the result fields are copied to the caller whatever the  *)
(* instruction returned: res_x to z for ecdh_hw (res_y is NULL), res_x and *)
(* res_y to key->X and key->Y for eckeygen_cpacf                           *)
scalar_mul_cpacf_Invoke ==
  /\ pc = "scalar_mul_invoke"
  /\ \E cc \in ConditionCodes :
       LET res == IF cc = 0 THEN "result" ELSE "zero"
       IN /\ cpu' = [cpu EXCEPT !.param["res_x"] = res, !.param["res_y"] = res,
                                !.rc = IF cc # 0 THEN EIO ELSE 0,
                                !.invocations = IF @ < MaxAttempts THEN @ + 1 ELSE @]
          /\ out' = IF call.op = "ecdh_hw"
                      THEN [out EXCEPT !.z = res]
                      ELSE [out EXCEPT
                              !.X = res, !.Y = res,
                              !.Xw = Append(@, Write(0, privlen_from_nid(call.nid),
                                                     "field")),
                              !.Yw = Append(@, Write(0, privlen_from_nid(call.nid),
                                                     "field"))]
  /\ pc' = "scalar_mul_cleanse"
  /\ UNCHANGED <<flags, lib, dom, mem, call, stage, req, rc, heap, calls>>

(* OPENSSL_cleanse(param.buff, sizeof(param.buff)); return rc *)
scalar_mul_cpacf_Cleanse ==
  /\ pc = "scalar_mul_cleanse"
  /\ cpu' = [cpu EXCEPT !.param = ZeroParam(scalar_mul_fields), !.returned = TRUE]
  /\ pc' = IF call.op = "ecdh_hw" THEN "ecdh_after_cpacf" ELSE "eckeygen_cpacf_out"
  /\ UNCHANGED <<flags, lib, dom, mem, call, stage, req, out, rc, heap, calls>>

(***************************************************************************)
(* ecdh_hw and make_ecdh_request                                           *)
(***************************************************************************)

(* if (msa9_switch && !ica_offload_enabled) rc = scalar_mul_cpacf(...) *)
ecdh_hw_Start ==
  /\ pc = "entry"
  /\ call.op = "ecdh_hw"
  /\ IF msa9_switch /\ ~ica_offload_enabled
       THEN pc' = "scalar_mul_cpacf" /\ stage' = "instruction"
       ELSE pc' = "ecdh_gate" /\ stage' = "coprocessor"
  /\ UNCHANGED <<flags, lib, dom, mem, call, cpu, req, out, rc, heap, calls>>

(* variant: only a successful instruction ends the call, a fault falls     *)
(* through to the coprocessor stage                                        *)
ecdh_hw_AfterCpacf_fallthrough ==
  /\ pc = "ecdh_after_cpacf"
  /\ IF cpu.rc = 0
       THEN Return(cpu.rc) /\ UNCHANGED stage
       ELSE pc' = "ecdh_gate" /\ stage' = "coprocessor" /\ UNCHANGED rc
  /\ UNCHANGED <<flags, lib, dom, mem, call, cpu, req, out, heap, calls>>

(* if (rc != EINVAL) return rc; *)
ecdh_hw_AfterCpacf ==
  /\ pc = "ecdh_after_cpacf"
  /\ IF cpu.rc # EINVAL
       THEN Return(cpu.rc) /\ UNCHANGED stage
       ELSE pc' = "ecdh_gate" /\ stage' = "coprocessor" /\ UNCHANGED rc
  /\ UNCHANGED <<flags, lib, dom, mem, call, cpu, req, out, heap, calls>>

(* if (!ecc_via_online_card) return ENODEV;                                *)
(* if (adapter_handle == DRIVER_NOT_LOADED) return EIO;                    *)
ecdh_hw_Gate ==
  /\ pc = "ecdh_gate"
  /\ IF ~ecc_via_online_card
       THEN Return(ENODEV)
       ELSE IF call.adapter_handle = DRIVER_NOT_LOADED
              THEN Return(EIO)
              ELSE pc' = "ecdh_alloc" /\ UNCHANGED rc
  /\ UNCHANGED <<flags, lib, dom, mem, call, stage, cpu, req, out, heap, calls>>

(* make_ecdh_request up to the malloc: NULL for a curve the card does not  *)
(* handle or when malloc fails, and ecdh_hw then returns EIO               *)
make_ecdh_request_Alloc ==
  /\ pc = "ecdh_alloc"
  /\ IF curve_type_from_nid(call.nid) < 0
       THEN Return(EIO) /\ UNCHANGED <<req, heap>>
       ELSE \E ok \in BOOLEAN :
              IF ok
                THEN /\ req' = [req EXCEPT !.buf = "allocated"]
                     /\ heap' = heap + 1
                     /\ pc' = "ecdh_memset"
                     /\ UNCHANGED rc
                ELSE /\ req' = [req EXCEPT !.malloc_failed = TRUE]
                     /\ Return(EIO)
                     /\ UNCHANGED heap
  /\ UNCHANGED <<flags, lib, dom, mem, call, stage, cpu, out, calls>>

(* memset of the whole buffer to 0 *)
make_ecdh_request_Memset ==
  /\ pc = "ecdh_memset"
  /\ req' = [req EXCEPT !.buf = "zeroed", !.zeroed = TRUE]
  /\ pc' = "ecdh_populate"
  /\ UNCHANGED <<flags, lib, dom, mem, call, stage, cpu, out, rc, heap, calls>>

(* header, parameter block, key block and finalize_xcrb *)
make_ecdh_request_Populate ==
  /\ pc = "ecdh_populate"
  /\ \E fopen_ok \in BOOLEAN, fscanf_ok \in BOOLEAN :
       LET cprbx == make_cprbx(fopen_ok, fscanf_ok)
       IN /\ (domain >= 0 => fopen_ok /\ fscanf_ok)
          /\ (~fopen_ok => fscanf_ok)
          /\ req' = [req EXCEPT !.buf = "populated",
                                !.cprbx_domain = cprbx.domain,
                                !.pub = "peer",
                                !.lens = make_ecdh_request(call.nid)]
          /\ domain' = cprbx.static_domain
          /\ fopens' = cprbx.fopens
  /\ pc' = "ecdh_ioctl"
  /\ UNCHANGED <<flags, lib, ap_domain, thr, mem, call, stage, cpu, out, rc,
                 heap, calls>>

(* rc = ioctl(adapter_handle, ZSECSENDCPRB, xcrb): the card stores a reply *)
(* whose key_len it chooses, or the ioctl fails                            *)
ecdh_hw_Ioctl ==
  /\ pc = "ecdh_ioctl"
  /\ \E ok \in BOOLEAN, d \in {0 - 1, 0, 1} :
       IF ok
         THEN /\ req' = [req EXCEPT !.submitted = @ + 1, !.ioctl_rc = 0,
                           !.reply.key_len = privlen_from_nid(call.nid) + 4 + d]
              /\ pc' = "ecdh_decode"
         ELSE /\ d = 0
              /\ req' = [req EXCEPT !.submitted = @ + 1, !.ioctl_rc = 0 - 1,
                           !.rc = EIO]
              /\ pc' = "ecdh_ret"
  /\ UNCHANGED <<flags, lib, dom, mem, call, stage, cpu, out, rc, heap, calls>>

(* variant: z is copied before the length is compared *)
ecdh_hw_Decode_copy_first ==
  /\ pc = "ecdh_decode"
  /\ out' = [out EXCEPT !.z = "reply"]
  /\ req' = [req EXCEPT !.rc = IF req.reply.key_len - 4 # privlen_from_nid(call.nid)
                                 THEN EIO ELSE 0]
  /\ pc' = "ecdh_ret"
  /\ UNCHANGED <<flags, lib, dom, mem, call, stage, cpu, rc, heap, calls>>

(* if (reply_p->key_len - 4 != privlen) rc = EIO; else memcpy(z, ...) *)
ecdh_hw_Decode ==
  /\ pc = "ecdh_decode"
  /\ IF req.reply.key_len - 4 # privlen_from_nid(call.nid)
       THEN req' = [req EXCEPT !.rc = EIO] /\ UNCHANGED out
       ELSE req' = [req EXCEPT !.rc = 0] /\ out' = [out EXCEPT !.z = "reply"]
  /\ pc' = "ecdh_ret"
  /\ UNCHANGED <<flags, lib, dom, mem, call, stage, cpu, rc, heap, calls>>

(* ret: OPENSSL_cleanse(buf, len); free(buf); return rc; *)
ecdh_hw_Ret ==
  /\ pc = "ecdh_ret"
  /\ req' = [req EXCEPT !.buf = "freed", !.wiped = TRUE]
  /\ heap' = heap - 1
  /\ Return(req.rc)
  /\ UNCHANGED <<flags, lib, dom, mem, call, stage, cpu, out, calls>>

(***************************************************************************)
(* ecdsa_sign_cpacf: ECDSA signature by the KDSA instruction.              *)
(***************************************************************************)

(* a caller that signs deterministically (or not) through the adapter *)
ecdsa_sign_cpacf_Enter ==
  /\ pc = "entry"
  /\ call.op = "ecdsa_sign_cpacf"
  /\ pc' = "ecdsa_sign_cpacf"
  /\ stage' = "instruction"
  /\ UNCHANGED <<flags, lib, dom, mem, call, cpu, req, out, rc, heap, calls>>

(* where the adapter returns to *)
SignReturn(r) ==
  IF call.op = "ecdsa_sign_hw"
    THEN pc' = "sign_after_cpacf" /\ UNCHANGED rc
    ELSE Return(r)

(* memset of the block, then the switch: hash and private key are copied   *)
(* in for a supported curve; the default case returns EINVAL               *)
ecdsa_sign_cpacf_Marshal ==
  /\ pc = "ecdsa_sign_cpacf"
  /\ IF call.nid \in ecdsa_sign_cpacf_curves
       THEN /\ cpu' = [cpu EXCEPT !.adapter = "ecdsa_sign_cpacf",
                         !.param = [ZeroParam(ecdsa_sign_fields) EXCEPT
                                      !["hash"] = "operand", !["priv"] = "secret"]]
            /\ pc' = IF call.rng_cb THEN "sign_rng" ELSE "sign_invoke"
            /\ UNCHANGED rc
       ELSE /\ cpu' = [cpu EXCEPT !.adapter = "ecdsa_sign_cpacf",
                         !.param = ZeroParam(ecdsa_sign_fields), !.rc = EINVAL,
                         !.returned = TRUE]
            /\ SignReturn(EINVAL)
  /\ UNCHANGED <<flags, lib, dom, mem, call, stage, req, out, heap, calls>>

(* rng_cb(param.rand + off, ...): a new random value for the next attempt *)
ecdsa_sign_cpacf_Rng ==
  /\ pc = "sign_rng"
  /\ \E k \in RandValues :
       cpu' = [cpu EXCEPT !.param["rand"] = "rand", !.randK = k, !.fresh = TRUE]
  /\ pc' = "sign_invoke"
  /\ UNCHANGED <<flags, lib, dom, mem, call, stage, req, out, rc, heap, calls>>

(* variant: a rejected attempt is repeated with the same random value *)
SignAfterKdsa_same_rand(cc) ==
  IF call.rng_cb /\ cc # 0 THEN "sign_invoke" ELSE "sign_copyout"

(* where the adapter goes after s390_kdsa ended with condition code cc *)
SignAfterKdsa(cc) ==
  IF call.rng_cb /\ cc # 0 THEN "sign_rng" ELSE "sign_copyout"

(* rc = s390_kdsa(fc, param.buff, NULL, 0) ending with condition code cc:   *)
(* an accepted invocation stores the signature; in deterministic mode a    *)
(* rejected one loops back to the callback                                 *)
ecdsa_sign_cpacf_Kdsa(cc) ==
  /\ pc = "sign_invoke"
  /\ cpu' = [cpu EXCEPT
               !.param["sig_r"] = IF cc = 0 THEN "result" ELSE @,
               !.param["sig_s"] = IF cc = 0 THEN "result" ELSE @,
               !.sigK = IF cc = 0 THEN (IF call.rng_cb THEN cpu.randK ELSE 0 - 1) ELSE @,
               !.rc = cc,
               !.fresh = FALSE,
               !.invocations = IF @ < MaxAttempts THEN @ + 1 ELSE @]
  /\ pc' = SignAfterKdsa(cc)
  /\ UNCHANGED <<flags, lib, dom, mem, call, stage, req, out, rc, heap, calls>>

ecdsa_sign_cpacf_KdsaAccept == ecdsa_sign_cpacf_Kdsa(0)

ecdsa_sign_cpacf_KdsaReject == \E cc \in ConditionCodes \ {0} : ecdsa_sign_cpacf_Kdsa(cc)

(* sig_r and sig_s are copied to the caller, then priv and rand are        *)
(* cleansed; the function returns rc                                       *)
ecdsa_sign_cpacf_Finish ==
  /\ pc = "sign_copyout"
  /\ out' = [out EXCEPT !.sig = cpu.param["sig_r"], !.sigK = cpu.sigK]
  /\ cpu' = [cpu EXCEPT !.param["priv"] = "zero", !.param["rand"] = "zero",
                        !.returned = TRUE]
  /\ SignReturn(cpu.rc)
  /\ UNCHANGED <<flags, lib, dom, mem, call, stage, req, heap, calls>>

(***************************************************************************)
(* ecdsa_sign_hw, provide_pubkey and make_ecdsa_sign_request               *)
(***************************************************************************)

ecdsa_sign_hw_Start ==
  /\ pc = "entry"
  /\ call.op = "ecdsa_sign_hw"
  /\ IF msa9_switch /\ ~ica_offload_enabled
       THEN pc' = "ecdsa_sign_cpacf" /\ stage' = "instruction"
       ELSE pc' = "sign_gate" /\ stage' = "coprocessor"
  /\ UNCHANGED <<flags, lib, dom, mem, call, cpu, req, out, rc, heap, calls>>

ecdsa_sign_hw_AfterCpacf ==
  /\ pc = "sign_after_cpacf"
  /\ IF cpu.rc # EINVAL
       THEN Return(cpu.rc) /\ UNCHANGED stage
       ELSE pc' = "sign_gate" /\ stage' = "coprocessor" /\ UNCHANGED rc
  /\ UNCHANGED <<flags, lib, dom, mem, call, cpu, req, out, heap, calls>>

(* variant: the handle is examined before the card flag *)
ecdsa_sign_hw_Gate_handle_first ==
  /\ pc = "sign_gate"
  /\ IF call.adapter_handle = DRIVER_NOT_LOADED
       THEN Return(EIO)
       ELSE IF ~ecc_via_online_card
              THEN Return(ENODEV)
              ELSE pc' = "sign_pubkey" /\ UNCHANGED rc
  /\ UNCHANGED <<flags, lib, dom, mem, call, stage, cpu, req, out, heap, calls>>

ecdsa_sign_hw_Gate ==
  /\ pc = "sign_gate"
  /\ IF ~ecc_via_online_card
       THEN Return(ENODEV)
       ELSE IF call.adapter_handle = DRIVER_NOT_LOADED
              THEN Return(EIO)
              ELSE pc' = "sign_pubkey" /\ UNCHANGED rc
  /\ UNCHANGED <<flags, lib, dom, mem, call, stage, cpu, req, out, heap, calls>>

(* rc = provide_pubkey(privkey, X, Y); if (rc != 0) return EIO;            *)
(* X and Y of the key are used when present, else derived in software,     *)
(* which can fail                                                          *)
provide_pubkey ==
  /\ pc = "sign_pubkey"
  /\ IF privlen_from_nid(call.nid) < 0
       THEN Return(EIO) /\ UNCHANGED req
       ELSE IF call.pubPresent
              THEN /\ req' = [req EXCEPT !.XY = "caller"]
                   /\ pc' = "sign_alloc"
                   /\ UNCHANGED rc
              ELSE \E ok \in BOOLEAN :
                     IF ok
                       THEN /\ req' = [req EXCEPT !.pubDerived = TRUE,
                                                  !.XY = "derived"]
                            /\ pc' = "sign_alloc"
                            /\ UNCHANGED rc
                       ELSE Return(EIO) /\ UNCHANGED req
  /\ UNCHANGED <<flags, lib, dom, mem, call, stage, cpu, out, heap, calls>>

make_ecdsa_sign_request_Alloc ==
  /\ pc = "sign_alloc"
  /\ IF curve_type_from_nid(call.nid) < 0
       THEN Return(EIO) /\ UNCHANGED <<req, heap>>
       ELSE \E ok \in BOOLEAN :
              IF ok
                THEN /\ req' = [req EXCEPT !.buf = "allocated"]
                     /\ heap' = heap + 1
                     /\ pc' = "sign_memset"
                     /\ UNCHANGED rc
                ELSE /\ req' = [req EXCEPT !.malloc_failed = TRUE]
                     /\ Return(EIO)
                     /\ UNCHANGED heap
  /\ UNCHANGED <<flags, lib, dom, mem, call, stage, cpu, out, calls>>

make_ecdsa_sign_request_Memset ==
  /\ pc = "sign_memset"
  /\ req' = [req EXCEPT !.buf = "zeroed", !.zeroed = TRUE]
  /\ pc' = "sign_populate"
  /\ UNCHANGED <<flags, lib, dom, mem, call, stage, cpu, out, rc, heap, calls>>

make_ecdsa_sign_request_Populate ==
  /\ pc = "sign_populate"
  /\ \E fopen_ok \in BOOLEAN, fscanf_ok \in BOOLEAN, hash_length \in HashLengths :
       LET cprbx == make_cprbx(fopen_ok, fscanf_ok)
       IN /\ (domain >= 0 => fopen_ok /\ fscanf_ok)
          /\ (~fopen_ok => fscanf_ok)
          /\ req' = [req EXCEPT !.buf = "populated",
                                !.cprbx_domain = cprbx.domain,
                                !.pub = req.XY,
                                !.lens = make_ecdsa_sign_request(call.nid, hash_length)]
          /\ domain' = cprbx.static_domain
          /\ fopens' = cprbx.fopens
  /\ pc' = "sign_ioctl"
  /\ UNCHANGED <<flags, lib, ap_domain, thr, mem, call, stage, cpu, out, rc,
                 heap, calls>>

ecdsa_sign_hw_Ioctl ==
  /\ pc = "sign_ioctl"
  /\ \E ok \in BOOLEAN, d \in {0 - 1, 0, 1} :
       IF ok
         THEN /\ req' = [req EXCEPT !.submitted = @ + 1, !.ioctl_rc = 0,
                           !.reply.vud_len = 2 * privlen_from_nid(call.nid) + 8 + d]
              /\ pc' = "sign_decode"
         ELSE /\ d = 0
              /\ req' = [req EXCEPT !.submitted = @ + 1, !.ioctl_rc = 0 - 1,
                           !.rc = EIO]
              /\ pc' = "sign_ret"
  /\ UNCHANGED <<flags, lib, dom, mem, call, stage, cpu, out, rc, heap, calls>>

(* if (reply_p->vud_len - 8 != 2 * privlen) rc = EIO; else memcpy(signature, ...) *)
ecdsa_sign_hw_Decode ==
  /\ pc = "sign_decode"
  /\ IF req.reply.vud_len - 8 # 2 * privlen_from_nid(call.nid)
       THEN req' = [req EXCEPT !.rc = EIO] /\ UNCHANGED out
       ELSE req' = [req EXCEPT !.rc = 0] /\ out' = [out EXCEPT !.sig = "reply"]
  /\ pc' = "sign_ret"
  /\ UNCHANGED <<flags, lib, dom, mem, call, stage, cpu, rc, heap, calls>>

ecdsa_sign_hw_Ret ==
  /\ pc = "sign_ret"
  /\ req' = [req EXCEPT !.buf = "freed", !.wiped = TRUE]
  /\ heap' = heap - 1
  /\ Return(req.rc)
  /\ UNCHANGED <<flags, lib, dom, mem, call, stage, cpu, out, calls>>

(***************************************************************************)
(* ecdsa_verify_cpacf, ecdsa_verify_hw and make_ecdsa_verify_request       *)
(***************************************************************************)

(* memset of the block, then the switch: hash, signature and public key    *)
(* are copied in for a supported curve; the default case sets rc = EINVAL  *)
(* and the function returns it                                             *)
ecdsa_verify_cpacf_Marshal ==
  /\ pc = "ecdsa_verify_cpacf"
  /\ IF call.nid \in ecdsa_verify_cpacf_curves
       THEN /\ cpu' = [cpu EXCEPT !.adapter = "ecdsa_verify_cpacf",
                         !.param = [f \in ecdsa_verify_fields |-> "operand"]]
            /\ pc' = "verify_invoke"
       ELSE /\ cpu' = [cpu EXCEPT !.adapter = "ecdsa_verify_cpacf",
                         !.param = ZeroParam(ecdsa_verify_fields), !.rc = EINVAL,
                         !.returned = TRUE]
            /\ pc' = "verify_after_cpacf"
  /\ UNCHANGED <<flags, lib, dom, mem, call, stage, req, out, rc, heap, calls>>

(* rc = s390_kdsa(fc, param.buff, NULL, 0) ? EFAULT : 0; return rc; *)
ecdsa_verify_cpacf_Kdsa ==
  /\ pc = "verify_invoke"
  /\ \E cc \in ConditionCodes :
       cpu' = [cpu EXCEPT !.rc = IF cc # 0 THEN EFAULT ELSE 0,
                          !.invocations = IF @ < MaxAttempts THEN @ + 1 ELSE @,
                          !.returned = TRUE]
  /\ pc' = "verify_after_cpacf"
  /\ UNCHANGED <<flags, lib, dom, mem, call, stage, req, out, rc, heap, calls>>

ecdsa_verify_hw_Start ==
  /\ pc = "entry"
  /\ call.op = "ecdsa_verify_hw"
  /\ IF msa9_switch /\ ~ica_offload_enabled
       THEN pc' = "ecdsa_verify_cpacf" /\ stage' = "instruction"
       ELSE pc' = "verify_gate" /\ stage' = "coprocessor"
  /\ UNCHANGED <<flags, lib, dom, mem, call, cpu, req, out, rc, heap, calls>>

ecdsa_verify_hw_AfterCpacf ==
  /\ pc = "verify_after_cpacf"
  /\ IF cpu.rc # EINVAL
       THEN Return(cpu.rc) /\ UNCHANGED stage
       ELSE pc' = "verify_gate" /\ stage' = "coprocessor" /\ UNCHANGED rc
  /\ UNCHANGED <<flags, lib, dom, mem, call, cpu, req, out, heap, calls>>

ecdsa_verify_hw_Gate ==
  /\ pc = "verify_gate"
  /\ IF ~ecc_via_online_card
       THEN Return(ENODEV)
       ELSE IF call.adapter_handle = DRIVER_NOT_LOADED
              THEN Return(EIO)
              ELSE pc' = "verify_alloc" /\ UNCHANGED rc
  /\ UNCHANGED <<flags, lib, dom, mem, call, stage, cpu, req, out, heap, calls>>

(* make_ecdsa_verify_request up to the memset: the buffer is allocated     *)
(* first; NULL when malloc fails, and NULL, with the buffer still          *)
(* allocated, for a curve the card does not handle; ecdsa_verify_hw then   *)
(* returns EIO                                                             *)
make_ecdsa_verify_request_Alloc ==
  /\ pc = "verify_alloc"
  /\ \E ok \in BOOLEAN :
       IF ~ok
         THEN /\ req' = [req EXCEPT !.malloc_failed = TRUE]
              /\ Return(EIO)
              /\ UNCHANGED heap
         ELSE /\ req' = [req EXCEPT !.buf = "allocated"]
              /\ heap' = heap + 1
              /\ IF curve_type_from_nid(call.nid) < 0
                   THEN Return(EIO)
                   ELSE pc' = "verify_memset" /\ UNCHANGED rc
  /\ UNCHANGED <<flags, lib, dom, mem, call, stage, cpu, out, calls>>

make_ecdsa_verify_request_Memset ==
  /\ pc = "verify_memset"
  /\ req' = [req EXCEPT !.buf = "zeroed", !.zeroed = TRUE]
  /\ pc' = "verify_populate"
  /\ UNCHANGED <<flags, lib, dom, mem, call, stage, cpu, out, rc, heap, calls>>

make_ecdsa_verify_request_Populate ==
  /\ pc = "verify_populate"
  /\ \E fopen_ok \in BOOLEAN, fscanf_ok \in BOOLEAN, hash_length \in HashLengths :
       LET cprbx == make_cprbx(fopen_ok, fscanf_ok)
       IN /\ (domain >= 0 => fopen_ok /\ fscanf_ok)
          /\ (~fopen_ok => fscanf_ok)
          /\ req' = [req EXCEPT !.buf = "populated",
                                !.cprbx_domain = cprbx.domain,
                                !.pub = "caller",
                                !.lens = make_ecdsa_verify_request(call.nid, hash_length)]
          /\ domain' = cprbx.static_domain
          /\ fopens' = cprbx.fopens
  /\ pc' = "verify_ioctl"
  /\ UNCHANGED <<flags, lib, ap_domain, thr, mem, call, stage, cpu, out, rc,
                 heap, calls>>

(* return and reason codes the card can answer with *)
ReturnCodes == {0, 4, 8}
ReasonCodes == {0, RS_SIGNATURE_INVALID, 1}

ecdsa_verify_hw_Ioctl ==
  /\ pc = "verify_ioctl"
  /\ \E ok \in BOOLEAN, rt \in ReturnCodes, rs \in ReasonCodes :
       IF ok
         THEN /\ req' = [req EXCEPT !.submitted = @ + 1, !.ioctl_rc = 0,
                           !.reply.ccp_rtcode = rt, !.reply.ccp_rscode = rs]
              /\ pc' = "verify_decode"
         ELSE /\ rt = 0 /\ rs = 0
              /\ req' = [req EXCEPT !.submitted = @ + 1, !.ioctl_rc = 0 - 1,
                           !.rc = EIO]
              /\ pc' = "verify_ret"
  /\ UNCHANGED <<flags, lib, dom, mem, call, stage, cpu, out, rc, heap, calls>>

(* variant: an invalid signature is reported like any other failure *)
verify_reply_rc_generic(rt, rs) ==
  IF rt # 0 \/ rs # 0 THEN EIO ELSE 0

(* the return code of ecdsa_verify_hw for the reply's codes *)
verify_reply_rc(rt, rs) ==
  IF rt = 4 /\ rs = RS_SIGNATURE_INVALID
    THEN EFAULT
    ELSE IF rt # 0 \/ rs # 0 THEN EIO ELSE 0

ecdsa_verify_hw_Decode ==
  /\ pc = "verify_decode"
  /\ req' = [req EXCEPT !.rc = verify_reply_rc(req.reply.ccp_rtcode,
                                                req.reply.ccp_rscode)]
  /\ pc' = "verify_ret"
  /\ UNCHANGED <<flags, lib, dom, mem, call, stage, cpu, out, rc, heap, calls>>

ecdsa_verify_hw_Ret ==
  /\ pc = "verify_ret"
  /\ req' = [req EXCEPT !.buf = "freed", !.wiped = TRUE]
  /\ heap' = heap - 1
  /\ Return(req.rc)
  /\ UNCHANGED <<flags, lib, dom, mem, call, stage, cpu, out, calls>>

(***************************************************************************)
(* eckeygen_cpacf, eckeygen_hw and make_eckeygen_request                   *)
(***************************************************************************)

(* memset(key->D, 0, privlen); BN_bn2bin(priv, key->D + privlen - numbytes) *)
eckeygen_cpacf_emit(privlen, numbytes) ==
  <<Write(0, privlen, "zero"), Write(privlen - numbytes, numbytes, "value")>>

(* eckeygen_cpacf up to the call of scalar_mul_cpacf: ENOMEM when the      *)
(* bignum allocations fail, EINVAL in the default case of the switch, EIO  *)
(* when BN_rand_range fails; else the new private scalar is written to     *)
(* key->D and the public point is computed                                 *)
eckeygen_cpacf_Begin ==
  /\ pc = "eckeygen_cpacf"
  /\ \E alloc_ok \in BOOLEAN, rand_ok \in BOOLEAN, short \in ShortBy :
       IF ~alloc_ok
         THEN /\ rand_ok /\ short = 0
              /\ cpu' = [cpu EXCEPT !.adapter = "eckeygen_cpacf", !.rc = ENOMEM]
              /\ pc' = "eckeygen_cpacf_ret"
              /\ UNCHANGED out
         ELSE IF call.nid \notin eckeygen_cpacf_curves
                THEN /\ rand_ok /\ short = 0
                     /\ cpu' = [cpu EXCEPT !.adapter = "eckeygen_cpacf", !.rc = EINVAL]
                     /\ pc' = "eckeygen_cpacf_ret"
                     /\ UNCHANGED out
                ELSE IF ~rand_ok
                       THEN /\ short = 0
                            /\ cpu' = [cpu EXCEPT !.adapter = "eckeygen_cpacf",
                                                  !.rc = EIO]
                            /\ pc' = "eckeygen_cpacf_ret"
                            /\ UNCHANGED out
                       ELSE LET privlen == privlen_from_nid(call.nid)
                                numbytes == privlen - short
                            IN /\ out' = [out EXCEPT
                                            !.D = "generated",
                                            !.Dw = eckeygen_cpacf_emit(privlen, numbytes)]
                               /\ pc' = "scalar_mul_cpacf"
                               /\ UNCHANGED cpu
  /\ UNCHANGED <<flags, lib, dom, mem, call, stage, req, rc, heap, calls>>

(* rv = scalar_mul_cpacf(...); out: the bignums are freed *)
eckeygen_cpacf_Out ==
  /\ pc = "eckeygen_cpacf_out"
  /\ pc' = "eckeygen_cpacf_ret"
  /\ UNCHANGED <<flags, lib, dom, mem, call, stage, cpu, req, out, rc, heap, calls>>

(* if (msa9_switch) rc = eckeygen_cpacf(key) *)
eckeygen_hw_Start ==
  /\ pc = "entry"
  /\ call.op = "eckeygen_hw"
  /\ IF msa9_switch
       THEN pc' = "eckeygen_cpacf" /\ stage' = "instruction"
       ELSE pc' = "eckeygen_gate" /\ stage' = "coprocessor"
  /\ UNCHANGED <<flags, lib, dom, mem, call, cpu, req, out, rc, heap, calls>>

(* if (rc != EINVAL) return rc; *)
eckeygen_hw_AfterCpacf ==
  /\ pc = "eckeygen_cpacf_ret"
  /\ IF cpu.rc # EINVAL
       THEN Return(cpu.rc) /\ UNCHANGED stage
       ELSE pc' = "eckeygen_gate" /\ stage' = "coprocessor" /\ UNCHANGED rc
  /\ cpu' = [cpu EXCEPT !.returned = TRUE]
  /\ UNCHANGED <<flags, lib, dom, mem, call, req, out, heap, calls>>

(* if (!ecc_via_online_card) return ENODEV;  (the handle is not examined)  *)
eckeygen_hw_Gate ==
  /\ pc = "eckeygen_gate"
  /\ IF ~ecc_via_online_card
       THEN Return(ENODEV)
       ELSE pc' = "eckeygen_alloc" /\ UNCHANGED rc
  /\ UNCHANGED <<flags, lib, dom, mem, call, stage, cpu, req, out, heap, calls>>

make_eckeygen_request_Alloc ==
  /\ pc = "eckeygen_alloc"
  /\ IF curve_type_from_nid(call.nid) < 0
       THEN Return(EIO) /\ UNCHANGED <<req, heap>>
       ELSE \E ok \in BOOLEAN :
              IF ok
                THEN /\ req' = [req EXCEPT !.buf = "allocated"]
                     /\ heap' = heap + 1
                     /\ pc' = "eckeygen_memset"
                     /\ UNCHANGED rc
                ELSE /\ req' = [req EXCEPT !.malloc_failed = TRUE]
                     /\ Return(EIO)
                     /\ UNCHANGED heap
  /\ UNCHANGED <<flags, lib, dom, mem, call, stage, cpu, out, calls>>

make_eckeygen_request_Memset ==
  /\ pc = "eckeygen_memset"
  /\ req' = [req EXCEPT !.buf = "zeroed", !.zeroed = TRUE]
  /\ pc' = "eckeygen_populate"
  /\ UNCHANGED <<flags, lib, dom, mem, call, stage, cpu, out, rc, heap, calls>>

make_eckeygen_request_Populate ==
  /\ pc = "eckeygen_populate"
  /\ \E fopen_ok \in BOOLEAN, fscanf_ok \in BOOLEAN :
       LET cprbx == make_cprbx(fopen_ok, fscanf_ok)
       IN /\ (domain >= 0 => fopen_ok /\ fscanf_ok)
          /\ (~fopen_ok => fscanf_ok)
          /\ req' = [req EXCEPT !.buf = "populated",
                                !.cprbx_domain = cprbx.domain,
                                !.pub = "none",
                                !.lens = make_eckeygen_request(call.nid)]
          /\ domain' = cprbx.static_domain
          /\ fopens' = cprbx.fopens
  /\ pc' = "eckeygen_ioctl"
  /\ UNCHANGED <<flags, lib, ap_domain, thr, mem, call, stage, cpu, out, rc,
                 heap, calls>>

(* compression markers a returned public-key token can carry *)
CompressFlags == {4, 2}

(* privsec.section_len of a returned key token: the length of a private    *)
(* section that carries the key, or a length that reaches the end of the   *)
(* reply half; the code adds it to the address of privsec as it is         *)
SectionLens(nid) ==
  {sizeof.ECC_PRIVATE_KEY_SECTION + sizeof.ECC_ASSOCIATED_DATA + privlen_from_nid(nid),
   CPRBXSIZE + PARMBSIZE}

(* rc = ioctl(adapter_handle, ZSECSENDCPRB, xcrb); the ioctl on the        *)
(* DRIVER_NOT_LOADED handle fails                                          *)
eckeygen_hw_Ioctl ==
  /\ pc = "eckeygen_ioctl"
  /\ \E ok \in BOOLEAN, d \in {0 - 1, 0, 1}, cf \in CompressFlags,
        sl \in SectionLens(call.nid) :
       IF ok /\ call.adapter_handle # DRIVER_NOT_LOADED
         THEN /\ req' = [req EXCEPT !.submitted = @ + 1, !.ioctl_rc = 0,
                           !.reply.formatted_data_len = privlen_from_nid(call.nid) + d,
                           !.reply.compress_flag = cf,
                           !.reply.section_len = sl]
              /\ pc' = "eckeygen_decode"
         ELSE /\ d = 0 /\ cf = 4 /\ ~ok /\ sl = CPRBXSIZE + PARMBSIZE
              /\ req' = [req EXCEPT !.submitted = @ + 1, !.ioctl_rc = 0 - 1,
                           !.rc = EIO]
              /\ pc' = "eckeygen_ret"
  /\ UNCHANGED <<flags, lib, dom, mem, call, stage, cpu, out, rc, heap, calls>>

(* if (formatted_data_len != privlen) rc = EIO; else memcpy(key->D, ...) *)
eckeygen_hw_DecodeD ==
  /\ pc = "eckeygen_decode"
  /\ IF req.reply.formatted_data_len # privlen_from_nid(call.nid)
       THEN /\ req' = [req EXCEPT !.rc = EIO]
            /\ pc' = "eckeygen_ret"
            /\ UNCHANGED out
       ELSE /\ out' = [out EXCEPT
                         !.D = "reply",
                         !.Dw = Append(@, Write(0, privlen_from_nid(call.nid), "field"))]
            /\ pc' = "eckeygen_decode_pub"
            /\ UNCHANGED req
  /\ UNCHANGED <<flags, lib, dom, mem, call, stage, cpu, rc, heap, calls>>

(* variant: X and Y are copied before the marker is compared *)
eckeygen_hw_DecodePub_copy_first ==
  /\ pc = "eckeygen_decode_pub"
  /\ out' = [out EXCEPT !.X = "reply", !.Y = "reply"]
  /\ req' = [req EXCEPT !.rc = IF req.reply.compress_flag # 4 THEN EIO ELSE 0]
  /\ pc' = "eckeygen_ret"
  /\ UNCHANGED <<flags, lib, dom, mem, call, stage, cpu, rc, heap, calls>>

(* if (pub_p->compress_flag != 0x04) rc = EIO; else memcpy(key->X, ..., 2*privlen) *)
eckeygen_hw_DecodePub ==
  /\ pc = "eckeygen_decode_pub"
  /\ IF req.reply.compress_flag # 4
       THEN req' = [req EXCEPT !.rc = EIO] /\ UNCHANGED out
       ELSE /\ req' = [req EXCEPT !.rc = 0]
            /\ out' = [out EXCEPT
                         !.X = "reply", !.Y = "reply",
                         !.Xw = Append(@, Write(0, privlen_from_nid(call.nid), "field")),
                         !.Yw = Append(@, Write(0, privlen_from_nid(call.nid), "field"))]
  /\ pc' = "eckeygen_ret"
  /\ UNCHANGED <<flags, lib, dom, mem, call, stage, cpu, rc, heap, calls>>

eckeygen_hw_Ret ==
  /\ pc = "eckeygen_ret"
  /\ req' = [req EXCEPT !.buf = "freed", !.wiped = TRUE]
  /\ heap' = heap - 1
  /\ Return(req.rc)
  /\ UNCHANGED <<flags, lib, dom, mem, call, stage, cpu, out, calls>>

(***************************************************************************)
(* scalar_mulx_cpacf: Montgomery ladder by the PCC instruction.            *)
(***************************************************************************)

scalar_mulx_cpacf_Enter ==
  /\ pc = "entry"
  /\ call.op = "scalar_mulx_cpacf"
  /\ pc' = "scalar_mulx_cpacf"
  /\ stage' = "instruction"
  /\ UNCHANGED <<flags, lib, dom, mem, call, cpu, req, out, rc, heap, calls>>

scalar_mulx_cpacf_Marshal ==
  /\ pc = "scalar_mulx_cpacf"
  /\ IF call.nid \in scalar_mulx_cpacf_curves
       THEN /\ cpu' = [cpu EXCEPT !.adapter = "scalar_mulx_cpacf",
                         !.param = [ZeroParam(scalar_mulx_fields) EXCEPT
                                      !["u"] = "operand", !["scalar"] = "secret"]]
            /\ pc' = "scalar_mulx_invoke"
       ELSE /\ cpu' = [cpu EXCEPT !.adapter = "scalar_mulx_cpacf",
                         !.param = ZeroParam(scalar_mulx_fields), !.rc = EINVAL]
            /\ pc' = "scalar_mulx_cleanse"
  /\ UNCHANGED <<flags, lib, dom, mem, call, stage, req, out, rc, heap, calls>>

scalar_mulx_cpacf_Invoke ==
  /\ pc = "scalar_mulx_invoke"
  /\ \E cc \in ConditionCodes :
       LET res == IF cc = 0 THEN "result" ELSE "zero"
       IN /\ cpu' = [cpu EXCEPT !.param["res_u"] = res,
                                !.rc = IF cc # 0 THEN EIO ELSE 0,
                                !.invocations = IF @ < MaxAttempts THEN @ + 1 ELSE @]
          /\ out' = [out EXCEPT !.z = res]
  /\ pc' = "scalar_mulx_cleanse"
  /\ UNCHANGED <<flags, lib, dom, mem, call, stage, req, rc, heap, calls>>

scalar_mulx_cpacf_Cleanse ==
  /\ pc = "scalar_mulx_cleanse"
  /\ cpu' = [cpu EXCEPT !.param = ZeroParam(scalar_mulx_fields), !.returned = TRUE]
  /\ Return(cpu.rc)
  /\ UNCHANGED <<flags, lib, dom, mem, call, stage, req, out, heap, calls>>

(***************************************************************************)
(* The software tier: ecdh_sw, ecdsa_sign_sw, ecdsa_verify_sw and          *)
(* eckeygen_sw, which do the operation with the arithmetic library.        *)
(***************************************************************************)

(* is_supported_openssl_curve: EC_GROUP_new_by_curve_name knows the curve *)
is_supported_openssl_curve(nid) == nid \in {"P256", "P384", "P521", "BP256"}

(* EC_GROUP_get_degree of a curve the library knows *)
EC_GROUP_get_degree(nid) ==
  CASE nid = "P256" -> 256
    [] nid = "P384" -> 384
    [] nid = "P521" -> 521
    [] nid = "BP256" -> 256
    [] OTHER -> 0

(* variant: the curve is examined before the FIPS state *)
sw_precheck_curve_first(next) ==
  IF ~is_supported_openssl_curve(call.nid)
    THEN Return(EINVAL)
    ELSE IF ICA_FIPS /\ fips /\ ~FIPS_mode
           THEN Return(EACCES)
           ELSE pc' = next /\ UNCHANGED rc

(* the first statements of every software-tier entry point:                *)
(* #ifdef ICA_FIPS  if ((fips & ICA_FIPS_MODE) && (!FIPS_mode())) return   *)
(* EACCES;  #endif  if (!is_supported_openssl_curve(nid)) return EINVAL;   *)
sw_precheck(next) ==
  IF ICA_FIPS /\ fips /\ ~FIPS_mode
    THEN Return(EACCES)
    ELSE IF ~is_supported_openssl_curve(call.nid)
           THEN Return(EINVAL)
           ELSE pc' = next /\ UNCHANGED rc

(* the key object a was created: it has the method table new keys get *)
sw_key_created == lib' = [lib EXCEPT !.method = "engine"]

(* variant: the method table is left as it is *)
sw_set_method_skipped == UNCHANGED lib

(* ECDH_set_method / ECDSA_set_method / EC_KEY_set_method(a, the library's  *)
(* own table)                                                              *)
sw_set_method ==
  lib' = [lib EXCEPT !.method = "default",
                     !.switchedAfter = @ \/ lib.op # "none"]

(* the library operation o is invoked on the key object *)
sw_operation(o) == lib' = [lib EXCEPT !.op = o, !.opMethod = lib.method]

(* variant: the number is written at the start of the field, unpadded *)
sw_emit_unpadded(base, privlen, numbytes) ==
  <<Write(base, numbytes, "value")>>

(* leading 0x00 bytes, then BN_bn2bin of a number of numbytes bytes, in a   *)
(* field of privlen bytes that begins at base                              *)
sw_emit(base, privlen, numbytes) ==
  <<Write(base, privlen - numbytes, "zero"),
    Write(base + (privlen - numbytes), numbytes, "value")>>

(* entry of ecdh_sw, ecdsa_sign_sw, ecdsa_verify_sw and eckeygen_sw *)
sw_Check ==
  /\ pc = "entry"
  /\ call.op \in SwOps
  /\ sw_precheck(CASE call.op = "ecdh_sw" -> "ecdh_sw_keys"
                   [] call.op = "ecdsa_sign_sw" -> "sign_sw_key"
                   [] call.op = "ecdsa_verify_sw" -> "verify_sw_key"
                   [] OTHER -> "eckeygen_sw_key")
  /\ UNCHANGED <<flags, lib, dom, mem, call, stage, cpu, req, out, heap, calls>>

(* a = make_eckey(...); b = make_public_eckey(...); if (!a || !b) goto err; *)
(* ztmplen = (degree + 7) / 8; if (ztmplen != privlen) goto err;           *)
ecdh_sw_Keys ==
  /\ pc = "ecdh_sw_keys"
  /\ \E a_ok \in BOOLEAN, b_ok \in BOOLEAN :
       IF ~a_ok \/ ~b_ok
         THEN /\ (~a_ok => b_ok)
              /\ Return(EIO)
              /\ IF a_ok THEN sw_key_created ELSE UNCHANGED lib
         ELSE IF (EC_GROUP_get_degree(call.nid) + 7) \div 8
                   # privlen_from_nid(call.nid)
                THEN Return(EIO) /\ sw_key_created
                ELSE pc' = "ecdh_sw_method" /\ sw_key_created /\ UNCHANGED rc
  /\ UNCHANGED <<flags, dom, mem, call, stage, cpu, req, out, heap, calls>>

(* the method switch between the creation of the key object and the       *)
(* operation; in eckeygen_sw:  #if OPENSSL_VERSION_NUMBER < 0x10100000L    *)
(* nothing  #else  EC_KEY_set_method(a, EC_KEY_OpenSSL());  #endif         *)
sw_SetMethod ==
  /\ pc \in {"ecdh_sw_method", "sign_sw_method", "verify_sw_method",
             "eckeygen_sw_method"}
  /\ IF call.op = "eckeygen_sw" /\ ~OPENSSL_1_1_0
       THEN UNCHANGED lib
       ELSE sw_set_method
  /\ pc' = CASE pc = "ecdh_sw_method" -> "ecdh_sw_compute"
             [] pc = "sign_sw_method" -> "sign_sw_sign"
             [] pc = "verify_sw_method" -> "verify_sw_verify"
             [] OTHER -> "eckeygen_sw_generate"
  /\ UNCHANGED <<flags, dom, mem, call, stage, cpu, req, out, rc, heap, calls>>

(* rc = ECDH_compute_key(z, privlen, ...); if (rc == 0) goto err; ret = 0 *)
ecdh_sw_Compute ==
  /\ pc = "ecdh_sw_compute"
  /\ sw_operation("ECDH_compute_key")
  /\ \E ok \in BOOLEAN :
       IF ok THEN out' = [out EXCEPT !.z = "result"] /\ Return(0)
             ELSE Return(EIO) /\ UNCHANGED out
  /\ UNCHANGED <<flags, dom, mem, call, stage, cpu, req, heap, calls>>

(* a = make_eckey(...); if (!a) goto err; if (!EC_KEY_check_key(a)) goto err *)
ecdsa_sign_sw_Key ==
  /\ pc = "sign_sw_key"
  /\ \E a_ok \in BOOLEAN, check_ok \in BOOLEAN :
       IF ~a_ok
         THEN check_ok /\ Return(EIO) /\ UNCHANGED lib
         ELSE IF ~check_ok
                THEN Return(EIO) /\ sw_key_created
                ELSE pc' = "sign_sw_method" /\ sw_key_created /\ UNCHANGED rc
  /\ UNCHANGED <<flags, dom, mem, call, stage, cpu, req, out, heap, calls>>

(* sig = ECDSA_do_sign(...); if (!sig) goto err; r and s are written to    *)
(* the signature, each after privlen - BN_num_bytes leading 0x00 bytes     *)
ecdsa_sign_sw_Sign ==
  /\ pc = "sign_sw_sign"
  /\ sw_operation("ECDSA_do_sign")
  /\ \E ok \in BOOLEAN, short_r \in ShortBy, short_s \in ShortBy :
       LET privlen == privlen_from_nid(call.nid)
       IN IF ~ok
            THEN /\ short_r = 0 /\ short_s = 0
                 /\ Return(EIO)
                 /\ UNCHANGED out
            ELSE /\ out' = [out EXCEPT
                              !.sig = "result",
                              !.sigw = sw_emit(0, privlen, privlen - short_r)
                                         \o sw_emit(privlen, privlen, privlen - short_s)]
                 /\ Return(0)
  /\ UNCHANGED <<flags, dom, mem, call, stage, cpu, req, heap, calls>>

(* a = make_public_eckey(...); if (!a) goto err; sig = ECDSA_SIG_new(); ... *)
ecdsa_verify_sw_Key ==
  /\ pc = "verify_sw_key"
  /\ \E a_ok \in BOOLEAN :
       IF ~a_ok
         THEN Return(EIO) /\ UNCHANGED lib
         ELSE pc' = "verify_sw_method" /\ sw_key_created /\ UNCHANGED rc
  /\ UNCHANGED <<flags, dom, mem, call, stage, cpu, req, out, heap, calls>>

(* rc = ECDSA_do_verify(...): 0 invalid -> EFAULT, 1 valid -> 0, else EIO *)
ecdsa_verify_sw_Verify ==
  /\ pc = "verify_sw_verify"
  /\ sw_operation("ECDSA_do_verify")
  /\ \E r \in {0 - 1, 0, 1} :
       Return(CASE r = 0 -> EFAULT [] r = 1 -> 0 [] OTHER -> EIO)
  /\ UNCHANGED <<flags, dom, mem, call, stage, cpu, req, out, heap, calls>>

(* if ((a = EC_KEY_new_by_curve_name(nid)) == NULL) goto err;              *)
(* if ((group = EC_KEY_get0_group(a)) == NULL) goto err;                   *)
eckeygen_sw_Key ==
  /\ pc = "eckeygen_sw_key"
  /\ \E a_ok \in BOOLEAN, group_ok \in BOOLEAN :
       IF ~a_ok
         THEN group_ok /\ Return(EIO) /\ UNCHANGED lib
         ELSE IF ~group_ok
                THEN Return(EIO) /\ sw_key_created
                ELSE pc' = "eckeygen_sw_method" /\ sw_key_created /\ UNCHANGED rc
  /\ UNCHANGED <<flags, dom, mem, call, stage, cpu, req, out, heap, calls>>

(* if (!EC_KEY_generate_key(a)) goto err; then d is written to key->D      *)
(* after privlen - BN_num_bytes(d) leading 0x00 bytes                      *)
eckeygen_sw_Generate ==
  /\ pc = "eckeygen_sw_generate"
  /\ sw_operation("EC_KEY_generate_key")
  /\ \E ok \in BOOLEAN, short_d \in ShortBy :
       LET privlen == privlen_from_nid(call.nid)
       IN IF ~ok
            THEN /\ short_d = 0
                 /\ Return(EIO)
                 /\ UNCHANGED out
            ELSE /\ out' = [out EXCEPT !.D = "generated",
                                       !.Dw = sw_emit(0, privlen, privlen - short_d)]
                 /\ pc' = "eckeygen_sw_pub"
                 /\ UNCHANGED rc
  /\ UNCHANGED <<flags, dom, mem, call, stage, cpu, req, heap, calls>>

(* if (!EC_POINT_get_affine_coordinates_GFp(...)) goto err; then x and y   *)
(* are written to key->X and key->Y, each padded like d                    *)
eckeygen_sw_Pub ==
  /\ pc = "eckeygen_sw_pub"
  /\ \E ok \in BOOLEAN, short_x \in ShortBy, short_y \in ShortBy :
       LET privlen == privlen_from_nid(call.nid)
       IN IF ~ok
            THEN /\ short_x = 0 /\ short_y = 0
                 /\ Return(EIO)
                 /\ UNCHANGED out
            ELSE /\ out' = [out EXCEPT
                              !.X = "generated", !.Y = "generated",
                              !.Xw = sw_emit(0, privlen, privlen - short_x),
                              !.Yw = sw_emit(0, privlen, privlen - short_y)]
                 /\ Return(0)
  /\ UNCHANGED <<flags, lib, dom, mem, call, stage, cpu, req, heap, calls>>

(***************************************************************************)
(* get_default_domain, statement by statement, run by several threads.     *)
(* The static short domain is read and written without synchronisation;    *)
(* an aligned 16-bit load or store is one step.                            *)
(***************************************************************************)

(* thread t calls get_default_domain; late records a non-negative domain  *)
(* some call has returned so far                                           *)
get_default_domain_Enter(t) ==
  /\ thr[t].pc = "out"
  /\ thr[t].n < MaxDomainCalls
  /\ LET returned == IF \E u \in Threads : thr[u].ret >= 0
                       THEN thr[CHOOSE u \in Threads : thr[u].ret >= 0].ret
                       ELSE NoDomain
     IN thr' = [thr EXCEPT ![t] = [pc |-> "check", temp |-> NoDomain, f |-> FALSE,
                                   ret |-> thr[t].ret, n |-> thr[t].n + 1,
                                   late |-> returned, opened |-> FALSE]]
  /\ UNCHANGED <<flags, lib, mem, pc, call, stage, cpu, req, out, rc, heap,
                 calls, domain, ap_domain, fopens>>

(* variant: the file is read on every call *)
get_default_domain_Check_nocache(t) ==
  /\ thr[t].pc = "check"
  /\ thr' = [thr EXCEPT ![t].pc = "fopen"]
  /\ UNCHANGED <<flags, lib, mem, pc, call, stage, cpu, req, out, rc, heap,
                 calls, domain, ap_domain, fopens>>

(* if (domain >= 0) return domain; *)
get_default_domain_Check(t) ==
  /\ thr[t].pc = "check"
  /\ thr' = IF domain >= 0
              THEN [thr EXCEPT ![t].pc = "out", ![t].ret = domain]
              ELSE [thr EXCEPT ![t].pc = "fopen"]
  /\ UNCHANGED <<flags, lib, mem, pc, call, stage, cpu, req, out, rc, heap,
                 calls, domain, ap_domain, fopens>>

(* f = fopen(domainfile, "r"); if (!f) return domain; *)
get_default_domain_Fopen(t) ==
  /\ thr[t].pc = "fopen"
  /\ \E ok \in BOOLEAN :
       IF ok
         THEN /\ thr' = [thr EXCEPT ![t].pc = "fscanf", ![t].f = TRUE,
                                    ![t].opened = TRUE]
              /\ fopens' = fopens + 1
         ELSE /\ thr' = [thr EXCEPT ![t].pc = "out", ![t].ret = domain]
              /\ UNCHANGED fopens
  /\ UNCHANGED <<flags, lib, mem, pc, call, stage, cpu, req, out, rc, heap,
                 calls, domain, ap_domain>>

(* variant: the result of fscanf is not examined, temp may be left as it   *)
(* was on the stack                                                        *)
get_default_domain_Fscanf_unchecked(t) ==
  /\ thr[t].pc = "fscanf"
  /\ \E ok \in BOOLEAN :
       thr' = [thr EXCEPT ![t].pc = "store",
                          ![t].temp = IF ok THEN ap_domain ELSE 7]
  /\ UNCHANGED <<flags, lib, mem, pc, call, stage, cpu, req, out, rc, heap,
                 calls, domain, ap_domain, fopens>>

(* if (fscanf(f, "%d", &temp) != 1) return domain;  (f stays open) *)
get_default_domain_Fscanf(t) ==
  /\ thr[t].pc = "fscanf"
  /\ \E ok \in BOOLEAN :
       thr' = IF ok
                THEN [thr EXCEPT ![t].pc = "store", ![t].temp = ap_domain]
                ELSE [thr EXCEPT ![t].pc = "out", ![t].ret = domain]
  /\ UNCHANGED <<flags, lib, mem, pc, call, stage, cpu, req, out, rc, heap,
                 calls, domain, ap_domain, fopens>>

(* domain = (short)temp; *)
get_default_domain_Store(t) ==
  /\ thr[t].pc = "store"
  /\ domain' = ToShort(thr[t].temp)
  /\ thr' = [thr EXCEPT ![t].pc = "fclose"]
  /\ UNCHANGED <<flags, lib, mem, pc, call, stage, cpu, req, out, rc, heap,
                 calls, ap_domain, fopens>>

(* if (f) fclose(f); return domain; *)
get_default_domain_Return(t) ==
  /\ thr[t].pc = "fclose"
  /\ thr' = [thr EXCEPT ![t].pc = "out", ![t].f = FALSE, ![t].ret = domain]
  /\ UNCHANGED <<flags, lib, mem, pc, call, stage, cpu, req, out, rc, heap,
                 calls, domain, ap_domain, fopens>>

(***************************************************************************)
(* scalar_mulx_cpacf on bytes.  A buffer is a sequence of bytes, element 1 *)
(* is the byte at index 0.                                                 *)
(***************************************************************************)

(* bytes tried at the ends of the caller's buffers *)
SampleBytes == {0, 165, 255}

(* a buffer of len bytes with the given first and last byte *)
Buffer(len, first, last) ==
  [i \in 1 .. len |-> IF i = 1 THEN first
                      ELSE IF i = len THEN last
                      ELSE (7 * i) % 256]

Zeros(n) == [i \in 1 .. n |-> 0]

(* bit k of byte b *)
BitOf(b, k) == (b \div (2 ^ k)) % 2

(* a & m and a | m on bytes *)
AND(a, m) ==
  LET RECURSIVE and_from(_)
      and_from(k) == IF k > 7 THEN 0
                     ELSE BitOf(a, k) * BitOf(m, k) * (2 ^ k) + and_from(k + 1)
  IN and_from(0)

OR(a, m) == a + m - AND(a, m)

(* the size of the fields of param: DEF_PARAM(X25519, 32), DEF_PARAM(X448, 64) *)
scalar_mulx_field_size(nid) == IF nid = "X25519" THEN 32 ELSE 64

(* memcpy(dst, src, len) into a field that is longer than len *)
memcpy_into(field, src, len) ==
  [i \in DOMAIN field |-> IF i <= len THEN src[i] ELSE field[i]]

(* s390_flip_endian_32 and s390_flip_endian_64: the bytes in reverse order *)
s390_flip_endian(x) == [i \in DOMAIN x |-> x[Len(x) + 1 - i]]

(* variant: the high bit of the scalar is not set *)
scalar_mulx_clamp_scalar_noset(nid, sc) ==
  IF nid = "X25519"
    THEN [sc EXCEPT ![1] = AND(@, 248), ![32] = AND(@, 127)]
    ELSE [sc EXCEPT ![1] = AND(@, 252)]

(* scalar[0] &= 248; scalar[31] &= 127; scalar[31] |= 64;  for X25519,     *)
(* scalar[0] &= 252; scalar[55] |= 128;  for X448                          *)
scalar_mulx_clamp_scalar(nid, sc) ==
  IF nid = "X25519"
    THEN [sc EXCEPT ![1] = AND(@, 248), ![32] = OR(AND(@, 127), 64)]
    ELSE [sc EXCEPT ![1] = AND(@, 252), ![56] = OR(@, 128)]

(* variant: the mask is applied to the low byte of u *)
scalar_mulx_clamp_u_low_byte(nid, u) ==
  IF nid = "X25519" THEN [u EXCEPT ![1] = AND(@, 127)] ELSE u

(* u[31] &= 0x7f;  for X25519, nothing for X448 *)
scalar_mulx_clamp_u(nid, u) ==
  IF nid = "X25519" THEN [u EXCEPT ![32] = AND(@, 127)] ELSE u

(* what the instruction stores in res_u, a big-endian number in a field of *)
(* n bytes: the product of the scalar and u in a group in which scalars    *)
(* act on u-coordinates as on the curve, ([a][b])u = ([b][a])u; here the   *)
(* numbers modulo the prime 251                                            *)
pcc_result(n, scalar, u) ==
  LET RECURSIVE pw(_)
      pw(k) == IF k = 0 THEN 1
               ELSE IF k % 2 = 0 THEN (pw(k \div 2) * pw(k \div 2)) % 251
               ELSE (256 * pw(k - 1)) % 251
      RECURSIVE val(_, _, _)
      val(x, lo, hi) ==
        IF lo = hi THEN x[lo] % 251
        ELSE LET mid == (lo + hi) \div 2
             IN (val(x, lo, mid) * pw(hi - mid) + val(x, mid + 1, hi)) % 251
  IN [j \in 1 .. n |-> IF j < n THEN 0
                        ELSE (val(scalar, 1, n) * val(u, 1, n)) % 251]

(* the call, and memset(&param, 0, sizeof(param)); an nid that is neither  *)
(* X25519 nor X448 takes the default branch of the switch                  *)
scalar_mulx_bytes_Begin ==
  /\ mem.pc \in {"none", "done"}
  /\ \E nid \in {"X25519", "X448", "ED25519"}, s0 \in SampleBytes,
        s1 \in SampleBytes, u1 \in SampleBytes :
       LET len == privlen_from_nid(nid)
           n == scalar_mulx_field_size(nid)
           scalar == Buffer(len, s0, s1)
           u == Buffer(len, 255 - s0, u1)
       IN mem' = [pc |-> IF nid \in scalar_mulx_cpacf_curves THEN "prepare"
                         ELSE "cleanse",
                  nid |-> nid, scalar |-> scalar, u |-> u,
                  scalar0 |-> scalar, u0 |-> u,
                  p_res_u |-> Zeros(n), p_u |-> Zeros(n), p_scalar |-> Zeros(n),
                  at_pcc |-> [res_u |-> <<>>, u |-> <<>>, scalar |-> <<>>], res_u |-> Buffer(len, 17, 34),
                  rc |-> IF nid \in scalar_mulx_cpacf_curves THEN NoRc ELSE EINVAL]
  /\ UNCHANGED <<flags, lib, dom, pc, call, stage, cpu, req, out, rc, heap, calls>>

(* the key exchange of scalar_mul_test: A's public value from a_priv and  *)
(* the base, B's from b_priv and the base, then b_priv on A's public value *)
(* and a_priv on B's; a failing call ends the test                         *)
mulx_kex_Call ==
  \/ /\ mem.pc = "none"
     /\ \E nid \in scalar_mulx_cpacf_curves, a0 \in SampleBytes, a1 \in SampleBytes,
           b0 \in SampleBytes, b1 \in SampleBytes :
          LET len == privlen_from_nid(nid)
              n == scalar_mulx_field_size(nid)
              a == Buffer(len, a0, a1)
              base == [i \in 1 .. len |->
                         IF i > 1 THEN 0 ELSE IF nid = "X25519" THEN 9 ELSE 5]
          IN mem' = [pc |-> "prepare", nid |-> nid,
                     scalar |-> a, u |-> base, scalar0 |-> a, u0 |-> base,
                     p_res_u |-> Zeros(n), p_u |-> Zeros(n), p_scalar |-> Zeros(n),
                     at_pcc |-> NoMem.at_pcc, res_u |-> Zeros(len), rc |-> NoRc,
                     kex |-> [step |-> 1, a_priv |-> a,
                              b_priv |-> Buffer(len, b0, 255 - b1),
                              base_u |-> base, res |-> <<>>]]
  \/ /\ mem.pc = "done" /\ mem.rc = 0 /\ mem.kex.step \in 1 .. 3
     /\ LET n == scalar_mulx_field_size(mem.nid)
            res == Append(mem.kex.res, mem.res_u)
            scalar == IF mem.kex.step = 3 THEN mem.kex.a_priv ELSE mem.kex.b_priv
            u == CASE mem.kex.step = 1 -> mem.kex.base_u
                   [] mem.kex.step = 2 -> res[1]
                   [] OTHER -> res[2]
        IN mem' = [mem EXCEPT
                     !.pc = "prepare", !.rc = NoRc,
                     !.scalar = scalar, !.u = u, !.scalar0 = scalar, !.u0 = u,
                     !.p_res_u = Zeros(n), !.p_u = Zeros(n), !.p_scalar = Zeros(n),
                     !.res_u = Zeros(Len(@)),
                     !.kex = [@ EXCEPT !.step = @ + 1, !.res = res]]
  /\ UNCHANGED <<flags, lib, dom, pc, call, stage, cpu, req, out, rc, heap, calls>>

(* memcpy(param.u, u, len); memcpy(param.scalar, scalar, len); the       *)
(* clamping of the copies; then both fields to big-endian                  *)
scalar_mulx_bytes_Prepare ==
  /\ mem.pc = "prepare"
  /\ LET len == privlen_from_nid(mem.nid)
         p_u == memcpy_into(mem.p_u, mem.u, len)
         p_scalar == memcpy_into(mem.p_scalar, mem.scalar, len)
     IN mem' = [mem EXCEPT
                  !.pc = "pcc",
                  !.p_u = s390_flip_endian(scalar_mulx_clamp_u(mem.nid, p_u)),
                  !.p_scalar = s390_flip_endian(
                                 scalar_mulx_clamp_scalar(mem.nid, p_scalar))]
  /\ UNCHANGED <<flags, lib, dom, pc, call, stage, cpu, req, out, rc, heap, calls>>

(* rc = s390_pcc(fc, &param) ? EIO : 0; *)
scalar_mulx_bytes_Pcc ==
  /\ mem.pc = "pcc"
  /\ \E cc \in ConditionCodes :
       LET res == IF cc = 0
                    THEN pcc_result(scalar_mulx_field_size(mem.nid),
                                    mem.p_scalar, mem.p_u)
                    ELSE mem.p_res_u
       IN /\ mem' = [mem EXCEPT !.pc = "finish",
                                !.p_res_u = res,
                                !.at_pcc = [res_u |-> res, u |-> mem.p_u,
                                            scalar |-> mem.p_scalar],
                                !.rc = IF cc # 0 THEN EIO ELSE 0]
  /\ UNCHANGED <<flags, lib, dom, pc, call, stage, cpu, req, out, rc, heap, calls>>

(* res_u to little-endian; if (res_u != NULL) memcpy(res_u,               *)
(* param.res_u, len); OPENSSL_cleanse(param.buff, sizeof(param.buff));     *)
(* return rc;                                                              *)
scalar_mulx_bytes_Finish ==
  /\ mem.pc \in {"finish", "cleanse"}
  /\ mem' = [mem EXCEPT
               !.pc = "done",
               !.res_u = IF mem.pc = "finish"
                           THEN SubSeq(s390_flip_endian(mem.p_res_u), 1,
                                       privlen_from_nid(mem.nid))
                           ELSE @,
               !.p_res_u = Zeros(Len(@)),
               !.p_u = Zeros(Len(@)),
               !.p_scalar = Zeros(Len(@))]
  /\ UNCHANGED <<flags, lib, dom, pc, call, stage, cpu, req, out, rc, heap, calls>>

(***************************************************************************)
(* ed25519_derive_pub and ed448_derive_pub at byte level.                  *)
(***************************************************************************)

(* a coordinate the point multiplication stores: a big-endian number of    *)
(* len bytes below the prime of the curve, so below 2^255 on the 255-bit   *)
(* curve and below 2^448, in a field of 57 bytes, on the 448-bit curve     *)
ed_coordinate(nid, hi, lo) ==
  IF nid = "ED25519"
    THEN Buffer(32, AND(hi, 127), lo)
    ELSE <<0>> \o Buffer(56, hi, lo)

(* the hash of the private key, the clamping of its first half and the     *)
(* turn to big-endian; a failing hash ends the call with its return code   *)
ed_derive_pub_Hash ==
  /\ mem.pc \in {"none", "done"}
  /\ \E nid \in {"ED25519", "ED448"}, hrc \in {0, EIO}, h0 \in SampleBytes,
        h1 \in SampleBytes :
       LET n == IF nid = "ED25519" THEN 32 ELSE 64
           hash == IF nid = "ED25519" THEN Buffer(32, h0, h1)
                   ELSE Buffer(57, h0, h1) \o Zeros(7)
           clamped == IF nid = "ED25519"
                        THEN [hash EXCEPT ![1] = AND(@, 248),
                                          ![32] = OR(AND(@, 63), 64)]
                        ELSE [hash EXCEPT ![1] = AND(@, 252),
                                          ![56] = OR(@, 128),
                                          ![57] = 0]
       IN /\ (hrc # 0 => h0 = 0 /\ h1 = 0)
          /\ mem' = [pc |-> IF hrc # 0 THEN "done" ELSE "mul",
                     nid |-> nid,
                     buf |-> IF hrc # 0 THEN hash ELSE s390_flip_endian(clamped),
                     res_x |-> Zeros(n), pub64 |-> Zeros(n),
                     x |-> <<>>, y |-> <<>>,
                     pub |-> Buffer(privlen_from_nid(nid), 17, 34),
                     rc |-> hrc]
  /\ UNCHANGED <<flags, lib, dom, pc, call, stage, cpu, req, out, rc, heap, calls>>

(* rc = scalar_mul_cpacf(res_x, pub, buf, base_x, base_y, nid): the        *)
(* result fields, zero when the instruction failed, are copied to the last *)
(* len bytes of res_x and of the buffer of the public key                  *)
ed_derive_pub_Mul ==
  /\ mem.pc = "mul"
  /\ \E cc \in ConditionCodes, xh \in SampleBytes, xl \in SampleBytes,
        yh \in SampleBytes, yl \in SampleBytes :
       LET len == privlen_from_nid(mem.nid)
           n == Len(mem.res_x)
           x == IF cc = 0 THEN ed_coordinate(mem.nid, xh, xl) ELSE Zeros(len)
           y == IF cc = 0 THEN ed_coordinate(mem.nid, yh, yl) ELSE Zeros(len)
       IN /\ (cc # 0 => xh = 0 /\ xl = 0 /\ yh = 0 /\ yl = 0)
          /\ mem' = [mem EXCEPT
                       !.pc = "encode",
                       !.res_x = SubSeq(@, 1, n - len) \o x,
                       !.pub64 = SubSeq(@, 1, n - len) \o y,
                       !.x = x, !.y = y,
                       !.rc = IF cc # 0 THEN EIO ELSE 0]
  /\ UNCHANGED <<flags, lib, dom, pc, call, stage, cpu, req, out, rc, heap, calls>>

(* variant: the parity is taken from res_x before it is turned *)
ed_derive_pub_Encode_unturned ==
  /\ mem.pc = "encode"
  /\ LET len == privlen_from_nid(mem.nid)
         n == Len(mem.res_x)
         le == s390_flip_endian(mem.pub64)
         marked == [le EXCEPT ![len] = OR(@, AND(mem.res_x[1], 1) * 128)]
         be == s390_flip_endian(marked)
     IN mem' = IF mem.rc # 0
                 THEN [mem EXCEPT !.pc = "done",
                                  !.pub = IF mem.nid = "ED25519" THEN mem.pub64 ELSE @]
                 ELSE [mem EXCEPT !.pc = "done",
                                  !.pub64 = be,
                                  !.pub = SubSeq(be, n - len + 1, n)]
  /\ UNCHANGED <<flags, lib, dom, pc, call, stage, cpu, req, out, rc, heap, calls>>

(* if (rc) goto out; res_x and the public key to little-endian;            *)
(* pub[len - 1] |= (res_x[0] & 0x01) << 7; the public key back to          *)
(* big-endian; on the 448-bit curve memcpy(pub, pub64 + 64 - 57, 57).  On  *)
(* the 255-bit curve scalar_mul_cpacf has written to pub itself            *)
ed_derive_pub_Encode ==
  /\ mem.pc = "encode"
  /\ LET len == privlen_from_nid(mem.nid)
         n == Len(mem.res_x)
         res_le == s390_flip_endian(mem.res_x)
         le == s390_flip_endian(mem.pub64)
         marked == [le EXCEPT ![len] = OR(@, AND(res_le[1], 1) * 128)]
         be == s390_flip_endian(marked)
     IN mem' = IF mem.rc # 0
                 THEN [mem EXCEPT !.pc = "done",
                                  !.pub = IF mem.nid = "ED25519" THEN mem.pub64 ELSE @]
                 ELSE [mem EXCEPT !.pc = "done",
                                  !.res_x = res_le,
                                  !.pub64 = be,
                                  !.pub = SubSeq(be, n - len + 1, n)]
  /\ UNCHANGED <<flags, lib, dom, pc, call, stage, cpu, req, out, rc, heap, calls>>

(***************************************************************************)
(* ecdsa_sign_cpacf in deterministic mode and ecdsa_verify_cpacf at byte   *)
(* level, as ecdsa_test calls them.  The two functions of the KDSA         *)
(* instruction are a signature scheme in which the signature of a hash     *)
(* under a key and a random number is unique.                              *)
(***************************************************************************)

(* the size of the fields of param: 32, 48 and 80 bytes *)
kdsa_field_size(nid) ==
  CASE nid = "P256" -> 32 [] nid = "P384" -> 48 [] OTHER -> 80

(* s390_kdsa with a signing function code: with the deterministic bit the  *)
(* random number is the rand field, else the one the hardware draws; a     *)
(* random number of zero is rejected with condition code 1; sig_r and      *)
(* sig_s are numbers of len bytes                                          *)
kdsa_sign(p, len, k) ==
  LET n == Len(p.hash)
  IN IF k = Zeros(n)
       THEN [p EXCEPT !.cc = 1]
       ELSE [p EXCEPT
               !.cc = 0,
               !.sig_r = [i \in 1 .. n |->
                            IF i <= n - len THEN 0 ELSE (k[i] + 1) % 256],
               !.sig_s = [i \in 1 .. n |->
                            IF i <= n - len THEN 0
                            ELSE (p.hash[i] + p.priv[i] + k[i]) % 256]]

(* s390_kdsa with a verifying function code: condition code 0 exactly for  *)
(* the signature that signing stores for the hash field under the private  *)
(* key of pub_x                                                            *)
kdsa_verify(p, len) ==
  LET n == Len(p.hash)
  IN IF \A i \in 1 .. n :
          /\ (i <= n - len => p.sig_r[i] = 0 /\ p.sig_s[i] = 0)
          /\ (i > n - len =>
                p.sig_s[i] = (p.hash[i] + ((p.pub_x[i] + 255) % 256)
                                + ((p.sig_r[i] + 255) % 256)) % 256)
       THEN 0 ELSE 1

(* one test vector of ecdsa_test: a key, a hash and the values             *)
(* deterministic_rng delivers; the zero value is one the instruction       *)
(* rejects                                                                 *)
sign_bytes_Begin ==
  /\ mem.pc = "none"
  /\ \E nid \in {"P256", "P384", "P521", "BP256"}, hashlen \in {20, 64},
        k1 \in {0} \cup RandValues, k2 \in RandValues :
       LET len == privlen_from_nid(nid)
           D == Buffer(len, 1, 201)
       IN mem' = [pc |-> "marshal", nid |-> nid, hashlen |-> hashlen,
                  hash |-> Buffer(hashlen, 90, 165),
                  key |-> [D |-> D,
                           X |-> [i \in 1 .. len |-> (D[i] + 1) % 256],
                           Y |-> Buffer(len, 2, 77)],
                  seq |-> <<k1, k2>>, run |-> 1, pos |-> 0,
                  param |-> <<>>,
                  sig |-> Buffer(2 * len, 17, 34),
                  sig1 |-> <<>>, rc1 |-> NoRc, rc |-> NoRc,
                  flip |-> <<0, 0>>, vrc |-> NoRc]
  /\ UNCHANGED <<flags, lib, dom, pc, call, stage, cpu, req, out, rc, heap, calls>>

(* memset(&param, 0, sizeof(param)); the leftmost bytes of the hash, as    *)
(* many as fit, and the private key are copied to the right end of their   *)
(* fields; the default case of the switch returns EINVAL                   *)
sign_bytes_Marshal ==
  /\ mem.pc = "marshal"
  /\ LET n == kdsa_field_size(mem.nid)
         len == privlen_from_nid(mem.nid)
         cnt == IF mem.hashlen > n THEN n ELSE mem.hashlen
     IN mem' = IF mem.nid \in ecdsa_sign_cpacf_curves
                 THEN [mem EXCEPT
                         !.pc = "attempt", !.pos = 0,
                         !.param = [sig_r |-> Zeros(n), sig_s |-> Zeros(n),
                                    hash |-> Zeros(n - cnt) \o SubSeq(mem.hash, 1, cnt),
                                    priv |-> Zeros(n - len) \o mem.key.D,
                                    rand |-> Zeros(n), cc |-> 0]]
                 ELSE [mem EXCEPT !.pc = "sign_return", !.rc = EINVAL]
  /\ UNCHANGED <<flags, lib, dom, pc, call, stage, cpu, req, out, rc, heap, calls>>

(* variant: the deterministic bit of the function code is not set, the     *)
(* hardware draws the random number                                        *)
sign_bytes_Attempt_hw_random ==
  /\ mem.pc = "attempt"
  /\ \E hw \in RandValues :
       LET n == kdsa_field_size(mem.nid)
           len == privlen_from_nid(mem.nid)
           v == mem.seq[mem.pos + 1]
           rand == Zeros(n - len) \o (IF v = 0 THEN Zeros(len) ELSE Buffer(len, v, 255 - v))
           p == kdsa_sign([mem.param EXCEPT !.rand = rand], len,
                          Zeros(n - len) \o Buffer(len, hw, 255 - hw))
       IN mem' = [mem EXCEPT !.param = p, !.pos = @ + 1, !.rc = p.cc,
                             !.pc = IF p.cc # 0 THEN "attempt" ELSE "copyout"]
  /\ UNCHANGED <<flags, lib, dom, pc, call, stage, cpu, req, out, rc, heap, calls>>

(* one turn of the loop: rng_cb(param.rand + off, size - off);             *)
(* rc = s390_kdsa(fc | 0x80, param.buff, NULL, 0); repeated while (rc)     *)
sign_bytes_Attempt ==
  /\ mem.pc = "attempt"
  /\ LET n == kdsa_field_size(mem.nid)
         len == privlen_from_nid(mem.nid)
         v == mem.seq[mem.pos + 1]
         rand == Zeros(n - len) \o (IF v = 0 THEN Zeros(len) ELSE Buffer(len, v, 255 - v))
         p == kdsa_sign([mem.param EXCEPT !.rand = rand], len, rand)
     IN mem' = [mem EXCEPT !.param = p, !.pos = @ + 1, !.rc = p.cc,
                           !.pc = IF p.cc # 0 THEN "attempt" ELSE "copyout"]
  /\ UNCHANGED <<flags, lib, dom, pc, call, stage, cpu, req, out, rc, heap, calls>>

(* the last len bytes of sig_r and of sig_s are copied to sig, priv and    *)
(* rand are cleansed and rc is returned; ecdsa_test keeps the result and   *)
(* signs once more with the same values, then verifies                     *)
sign_bytes_Finish ==
  /\ mem.pc \in {"copyout", "sign_return"}
  /\ LET n == kdsa_field_size(mem.nid)
         len == privlen_from_nid(mem.nid)
         sig == IF mem.pc = "copyout"
                  THEN SubSeq(mem.param.sig_r, n - len + 1, n)
                         \o SubSeq(mem.param.sig_s, n - len + 1, n)
                  ELSE mem.sig
         param == IF mem.pc = "copyout"
                    THEN [mem.param EXCEPT !.priv = Zeros(n), !.rand = Zeros(n)]
                    ELSE mem.param
     IN mem' = IF mem.run = 1
                 THEN [mem EXCEPT !.pc = "marshal", !.run = 2, !.param = param,
                                  !.sig1 = sig, !.rc1 = mem.rc,
                                  !.sig = Buffer(2 * len, 17, 34), !.rc = NoRc]
                 ELSE [mem EXCEPT !.pc = "verify", !.param = param, !.sig = sig]
  /\ UNCHANGED <<flags, lib, dom, pc, call, stage, cpu, req, out, rc, heap, calls>>

(* variant: sig_s is read from the start of the signature *)
verify_bytes_s_from_start ==
  /\ mem.pc = "verify"
  /\ \E j \in 0 .. Len(mem.sig), b \in 0 .. 7 :
       LET n == kdsa_field_size(mem.nid)
           len == privlen_from_nid(mem.nid)
           cnt == IF mem.hashlen > n THEN n ELSE mem.hashlen
           sig == [i \in 1 .. Len(mem.sig) |->
                     IF i # j THEN mem.sig[i]
                     ELSE IF BitOf(mem.sig[i], b) = 1 THEN mem.sig[i] - 2 ^ b
                          ELSE mem.sig[i] + 2 ^ b]
           p == [sig_r |-> Zeros(n - len) \o SubSeq(sig, 1, len),
                 sig_s |-> Zeros(n - len) \o SubSeq(sig, 1, len),
                 hash |-> Zeros(n - cnt) \o SubSeq(mem.hash, 1, cnt),
                 pub_x |-> Zeros(n - len) \o mem.key.X,
                 pub_y |-> Zeros(n - len) \o mem.key.Y]
       IN /\ (j = 0 => b = 0)
          /\ mem' = IF mem.nid \in ecdsa_verify_cpacf_curves
                      THEN [mem EXCEPT !.pc = "done", !.param = p, !.flip = <<j, b>>,
                              !.vrc = IF kdsa_verify(p, len) # 0 THEN EFAULT ELSE 0]
                      ELSE [mem EXCEPT !.pc = "done", !.flip = <<j, b>>,
                                       !.vrc = EINVAL]
  /\ UNCHANGED <<flags, lib, dom, pc, call, stage, cpu, req, out, rc, heap, calls>>

(* ecdsa_verify_cpacf on the signature, unchanged (j = 0) or with bit b of *)
(* byte j flipped: memset of param, the hash, the two halves of the        *)
(* signature and the public key are copied to the right end of their       *)
(* fields; rc = s390_kdsa(fc, param.buff, NULL, 0) ? EFAULT : 0            *)
verify_bytes ==
  /\ mem.pc = "verify"
  /\ \E j \in 0 .. Len(mem.sig), b \in 0 .. 7 :
       LET n == kdsa_field_size(mem.nid)
           len == privlen_from_nid(mem.nid)
           cnt == IF mem.hashlen > n THEN n ELSE mem.hashlen
           sig == [i \in 1 .. Len(mem.sig) |->
                     IF i # j THEN mem.sig[i]
                     ELSE IF BitOf(mem.sig[i], b) = 1 THEN mem.sig[i] - 2 ^ b
                          ELSE mem.sig[i] + 2 ^ b]
           p == [sig_r |-> Zeros(n - len) \o SubSeq(sig, 1, len),
                 sig_s |-> Zeros(n - len) \o SubSeq(sig, len + 1, 2 * len),
                 hash |-> Zeros(n - cnt) \o SubSeq(mem.hash, 1, cnt),
                 pub_x |-> Zeros(n - len) \o mem.key.X,
                 pub_y |-> Zeros(n - len) \o mem.key.Y]
       IN /\ (j = 0 => b = 0)
          /\ mem' = IF mem.nid \in ecdsa_verify_cpacf_curves
                      THEN [mem EXCEPT !.pc = "done", !.param = p, !.flip = <<j, b>>,
                              !.vrc = IF kdsa_verify(p, len) # 0 THEN EFAULT ELSE 0]
                      ELSE [mem EXCEPT !.pc = "done", !.flip = <<j, b>>,
                                       !.vrc = EINVAL]
  /\ UNCHANGED <<flags, lib, dom, pc, call, stage, cpu, req, out, rc, heap, calls>>

Next ==
  \/ Call
  \/ scalar_mul_cpacf_Marshal
  \/ scalar_mul_cpacf_Invoke
  \/ scalar_mul_cpacf_Cleanse
  \/ ecdh_hw_Start
  \/ ecdh_hw_AfterCpacf
  \/ ecdh_hw_Gate
  \/ make_ecdh_request_Alloc
  \/ make_ecdh_request_Memset
  \/ make_ecdh_request_Populate
  \/ ecdh_hw_Ioctl
  \/ ecdh_hw_Decode
  \/ ecdh_hw_Ret
  \/ ecdsa_sign_cpacf_Enter
  \/ ecdsa_sign_cpacf_Marshal
  \/ ecdsa_sign_cpacf_Rng
  \/ ecdsa_sign_cpacf_KdsaAccept
  \/ ecdsa_sign_cpacf_KdsaReject
  \/ ecdsa_sign_cpacf_Finish
  \/ ecdsa_sign_hw_Start
  \/ ecdsa_sign_hw_AfterCpacf
  \/ ecdsa_sign_hw_Gate
  \/ provide_pubkey
  \/ make_ecdsa_sign_request_Alloc
  \/ make_ecdsa_sign_request_Memset
  \/ make_ecdsa_sign_request_Populate
  \/ ecdsa_sign_hw_Ioctl
  \/ ecdsa_sign_hw_Decode
  \/ ecdsa_sign_hw_Ret
  \/ ecdsa_verify_cpacf_Marshal
  \/ ecdsa_verify_cpacf_Kdsa
  \/ ecdsa_verify_hw_Start
  \/ ecdsa_verify_hw_AfterCpacf
  \/ ecdsa_verify_hw_Gate
  \/ make_ecdsa_verify_request_Alloc
  \/ make_ecdsa_verify_request_Memset
  \/ make_ecdsa_verify_request_Populate
  \/ ecdsa_verify_hw_Ioctl
  \/ ecdsa_verify_hw_Decode
  \/ ecdsa_verify_hw_Ret
  \/ eckeygen_cpacf_Begin
  \/ eckeygen_cpacf_Out
  \/ eckeygen_hw_Start
  \/ eckeygen_hw_AfterCpacf
  \/ eckeygen_hw_Gate
  \/ make_eckeygen_request_Alloc
  \/ make_eckeygen_request_Memset
  \/ make_eckeygen_request_Populate
  \/ eckeygen_hw_Ioctl
  \/ eckeygen_hw_DecodeD
  \/ eckeygen_hw_DecodePub
  \/ eckeygen_hw_Ret
  \/ scalar_mulx_cpacf_Enter
  \/ scalar_mulx_cpacf_Marshal
  \/ scalar_mulx_cpacf_Invoke
  \/ scalar_mulx_cpacf_Cleanse

Spec == Init /\ [][Next]_vars

(***************************************************************************)
(* The software tier and key generation: the entry points that format the  *)
(* numbers of the arithmetic library for the caller.                       *)
(***************************************************************************)
(* the entry points called in the software tier and in key generation *)
SwSpecOps == SwOps \cup {"eckeygen_hw"}

SwInit ==
  /\ msa9_switch \in BOOLEAN
  /\ ica_offload_enabled = FALSE
  /\ ecc_via_online_card \in BOOLEAN
  /\ ICA_FIPS \in BOOLEAN
  /\ OPENSSL_1_1_0 \in BOOLEAN
  /\ fips \in BOOLEAN
  /\ (fips => ICA_FIPS)
  /\ FIPS_mode \in BOOLEAN
  /\ ap_domain = 5
  /\ InitCommon

SwNext ==
  \/ CallOf(SwSpecOps)
  \/ sw_Check
  \/ ecdh_sw_Keys
  \/ sw_SetMethod
  \/ ecdh_sw_Compute
  \/ ecdsa_sign_sw_Key
  \/ ecdsa_sign_sw_Sign
  \/ ecdsa_verify_sw_Key
  \/ ecdsa_verify_sw_Verify
  \/ eckeygen_sw_Key
  \/ eckeygen_sw_Generate
  \/ eckeygen_sw_Pub
  \/ eckeygen_hw_Start
  \/ eckeygen_cpacf_Begin
  \/ scalar_mul_cpacf_Marshal
  \/ scalar_mul_cpacf_Invoke
  \/ scalar_mul_cpacf_Cleanse
  \/ eckeygen_cpacf_Out
  \/ eckeygen_hw_AfterCpacf
  \/ eckeygen_hw_Gate
  \/ make_eckeygen_request_Alloc
  \/ make_eckeygen_request_Memset
  \/ make_eckeygen_request_Populate
  \/ eckeygen_hw_Ioctl
  \/ eckeygen_hw_DecodeD
  \/ eckeygen_hw_DecodePub
  \/ eckeygen_hw_Ret

SwSpec == SwInit /\ [][SwNext]_vars

(***************************************************************************)
(* Threads in get_default_domain while the file holds one value.           *)
(***************************************************************************)
DomainInit ==
  /\ msa9_switch = FALSE
  /\ ica_offload_enabled = FALSE
  /\ ecc_via_online_card = TRUE
  /\ ICA_FIPS = FALSE
  /\ OPENSSL_1_1_0 = TRUE
  /\ fips = FALSE
  /\ FIPS_mode = FALSE
  /\ ap_domain \in ApDomainValues
  /\ InitCommon

DomainNext ==
  \/ \E t \in Threads : get_default_domain_Enter(t)
  \/ \E t \in Threads : get_default_domain_Check(t)
  \/ \E t \in Threads : get_default_domain_Fopen(t)
  \/ \E t \in Threads : get_default_domain_Fscanf(t)
  \/ \E t \in Threads : get_default_domain_Store(t)
  \/ \E t \in Threads : get_default_domain_Return(t)

DomainSpec == DomainInit /\ [][DomainNext]_vars

(***************************************************************************)
(* Calls of scalar_mulx_cpacf at byte level.                               *)
(***************************************************************************)
MulxInit ==
  /\ msa9_switch = TRUE
  /\ ica_offload_enabled = FALSE
  /\ ecc_via_online_card = FALSE
  /\ ICA_FIPS = FALSE
  /\ OPENSSL_1_1_0 = TRUE
  /\ fips = FALSE
  /\ FIPS_mode = FALSE
  /\ ap_domain = 5
  /\ InitCommon

MulxNext ==
  \/ scalar_mulx_bytes_Begin
  \/ scalar_mulx_bytes_Prepare
  \/ scalar_mulx_bytes_Pcc
  \/ scalar_mulx_bytes_Finish

MulxSpec == MulxInit /\ [][MulxNext]_vars

(***************************************************************************)
(* Calls of ed25519_derive_pub and ed448_derive_pub at byte level.         *)
(***************************************************************************)
DeriveNext ==
  \/ ed_derive_pub_Hash
  \/ ed_derive_pub_Mul
  \/ ed_derive_pub_Encode

DeriveSpec == MulxInit /\ [][DeriveNext]_vars

(***************************************************************************)
(* Signing twice and verifying, as ecdsa_test does, at byte level.         *)
(***************************************************************************)
SignNext ==
  \/ sign_bytes_Begin
  \/ sign_bytes_Marshal
  \/ sign_bytes_Attempt
  \/ sign_bytes_Finish
  \/ verify_bytes

SignSpec == MulxInit /\ [][SignNext]_vars

(***************************************************************************)
(* The key exchange of scalar_mul_test over scalar_mulx_cpacf.             *)
(***************************************************************************)
KexNext ==
  \/ mulx_kex_Call
  \/ scalar_mulx_bytes_Prepare
  \/ scalar_mulx_bytes_Pcc
  \/ scalar_mulx_bytes_Finish

KexSpec == MulxInit /\ [][KexNext]_vars

(* the specification with the scheduling the code guarantees: a call keeps  *)
(* executing, and the hardware does not reject every random value for ever  *)
LiveSpec ==
  /\ Spec
  /\ WF_vars(Next)
  /\ SF_vars(ecdsa_sign_cpacf_KdsaAccept)

(***************************************************************************)
(* Properties                                                              *)
(***************************************************************************)

(* the condition under which each entry point tries the instruction adapter *)
InstructionPathEnabled ==
  IF call.op = "eckeygen_hw" THEN msa9_switch
                             ELSE msa9_switch /\ ~ica_offload_enabled

(* the curves the instruction adapter of an entry point handles *)
CpuCurves(o) ==
  CASE o = "ecdh_hw" -> scalar_mul_cpacf_curves
    [] o = "ecdsa_sign_hw" -> ecdsa_sign_cpacf_curves
    [] o = "ecdsa_verify_hw" -> ecdsa_verify_cpacf_curves
    [] o = "eckeygen_hw" -> eckeygen_cpacf_curves
    [] OTHER -> {}

NoRequest == req.buf = "none" /\ req.submitted = 0

(* C1: in a hardware-tier entry point the instruction adapter runs first   *)
(* whenever the instruction path is enabled; a result other than EINVAL is *)
(* returned as it is and no request is built or submitted; the coprocessor *)
(* stage is reached only after EINVAL or with the path disabled.           *)
C1_InstructionFirst ==
  call.op \in HwOps =>
    /\ (stage = "instruction" => InstructionPathEnabled /\ NoRequest)
    /\ (stage = "coprocessor" =>
          IF InstructionPathEnabled THEN cpu.returned /\ cpu.rc = EINVAL
                                    ELSE cpu.adapter = "none")
    /\ (cpu.returned /\ cpu.rc # EINVAL =>
          /\ stage = "instruction"
          /\ NoRequest
          /\ (pc = "done" => rc = cpu.rc))
    /\ (pc = "done" /\ InstructionPathEnabled => cpu.returned)

C1_Witness ==
  /\ call.op \in HwOps
  /\ pc = "done"
  /\ cpu.returned /\ cpu.rc = EIO /\ rc = EIO
  /\ ecc_via_online_card /\ call.adapter_handle = ValidHandle
  /\ curve_type_from_nid(call.nid) >= 0

(* C2: when the coprocessor stage is reached and ecc_via_online_card is    *)
(* not set, the entry point returns ENODEV whatever the handle is, and no  *)
(* buffer is allocated and nothing is submitted.                           *)
C2_NoDevice ==
  (call.op \in HwOps /\ stage = "coprocessor" /\ ~ecc_via_online_card) =>
    /\ NoRequest
    /\ (pc = "done" => rc = ENODEV)

C2_Witness ==
  /\ call.op \in HwOps
  /\ pc = "done" /\ stage = "coprocessor"
  /\ ~ecc_via_online_card
  /\ call.adapter_handle = DRIVER_NOT_LOADED
  /\ rc = ENODEV

(* C3: when the coprocessor stage is reached with the card permitted and   *)
(* the handle DRIVER_NOT_LOADED, the entry point ends with EIO without     *)
(* building a request and without submitting anything.                     *)
C3_DriverNotLoaded ==
  (call.op \in HwOps /\ stage = "coprocessor" /\ ecc_via_online_card
     /\ call.adapter_handle = DRIVER_NOT_LOADED) =>
    /\ NoRequest
    /\ (pc = "done" => rc = EIO)

(* C4: a call for a curve that neither the instruction adapter nor the     *)
(* card handles returns ENODEV, for every setting of the flags.            *)
C4_BothUnsupported ==
  (call.op \in HwOps /\ pc = "done"
     /\ call.nid \notin CpuCurves(call.op)
     /\ curve_type_from_nid(call.nid) < 0) =>
    rc = ENODEV

(* C5: a request buffer is zeroed before it is written, and it is wiped    *)
(* and freed before the call returns on every path: no buffer outlives the *)
(* call.                                                                   *)
C5_BufferLifecycle ==
  /\ (req.buf = "populated" => req.zeroed)
  /\ (pc = "done" =>
        /\ req.buf \in {"none", "freed"}
        /\ (req.buf = "freed" => req.wiped)
        /\ heap = 0)

(* C6: when an instruction adapter returns, every field of its parameter   *)
(* block has been wiped, on every path.                                    *)
C6_ParamWiped ==
  (cpu.returned /\ cpu.adapter \in {"scalar_mul_cpacf", "scalar_mulx_cpacf",
                                    "ecdsa_sign_cpacf", "ecdsa_verify_cpacf"}) =>
    \A f \in DOMAIN cpu.param : cpu.param[f] = "zero"

(* C7: with a callback, ecdsa_sign_cpacf draws a new random value before   *)
(* each invocation, repeats while the instruction rejects, stops at the    *)
(* first accepted invocation and returns 0 with that invocation's          *)
(* signature; if the hardware eventually accepts, the call ends. Without   *)
(* a callback the instruction is invoked exactly once.                     *)
C7_SignRetry ==
  /\ [](pc = "sign_invoke" /\ call.rng_cb => cpu.fresh /\ cpu.param["rand"] = "rand")
  /\ [][(pc = "sign_invoke" /\ call.rng_cb) =>
          /\ (cpu'.rc = 0 => pc' = "sign_copyout")
          /\ (cpu'.rc # 0 => pc' = "sign_rng")]_vars
  /\ []((pc = "done" /\ call.op = "ecdsa_sign_cpacf" /\ call.rng_cb
           /\ call.nid \in ecdsa_sign_cpacf_curves) =>
          /\ rc = 0
          /\ out.sig = "result"
          /\ out.sigK = cpu.randK
          /\ cpu.invocations >= 1)
  /\ []((pc \in {"done", "sign_after_cpacf"} /\ cpu.adapter = "ecdsa_sign_cpacf"
           /\ ~call.rng_cb /\ call.nid \in ecdsa_sign_cpacf_curves) =>
          cpu.invocations = 1)
  /\ ((pc = "sign_rng") ~> (pc = "done" /\ rc = 0))

C7_Witness ==
  /\ pc = "done" /\ call.op = "ecdsa_sign_cpacf" /\ call.rng_cb
  /\ cpu.invocations >= 2
  /\ rc = 0 /\ out.sig = "result"

(* C8: on the coprocessor path of ecdsa_verify_hw a failed ioctl gives     *)
(* EIO, return code 4 with reason RS_SIGNATURE_INVALID gives EFAULT, any   *)
(* other non-zero return or reason code gives EIO, and only a reply with   *)
(* both codes zero gives 0.                                                *)
C8_VerifyReply ==
  (call.op = "ecdsa_verify_hw" /\ pc = "done" /\ req.submitted > 0) =>
    /\ rc \in {0, EFAULT, EIO}
    /\ (rc = 0 <=> (req.ioctl_rc = 0 /\ req.reply.ccp_rtcode = 0
                      /\ req.reply.ccp_rscode = 0))
    /\ (rc = EFAULT <=> (req.ioctl_rc = 0 /\ req.reply.ccp_rtcode = 4
                           /\ req.reply.ccp_rscode = RS_SIGNATURE_INVALID))

C8_Witness ==
  /\ call.op = "ecdsa_verify_hw" /\ pc = "done" /\ stage = "coprocessor"
  /\ req.ioctl_rc = 0
  /\ req.reply.ccp_rtcode = 4 /\ req.reply.ccp_rscode = RS_SIGNATURE_INVALID
  /\ rc = EFAULT

(* the reply's length differs from the length the curve implies *)
ReplyLengthMismatch ==
  CASE call.op = "ecdh_hw" ->
         req.reply.key_len - 4 # privlen_from_nid(call.nid)
    [] call.op = "ecdsa_sign_hw" ->
         req.reply.vud_len - 8 # 2 * privlen_from_nid(call.nid)
    [] call.op = "eckeygen_hw" ->
         req.reply.formatted_data_len # privlen_from_nid(call.nid)
    [] OTHER -> FALSE

(* C9: on the coprocessor path the reply's length is compared with the     *)
(* curve's byte length before any payload is copied to the caller; on a    *)
(* mismatch the call returns EIO and nothing of the reply is copied out.   *)
C9_LengthChecked ==
  (call.op \in HwOps /\ stage = "coprocessor") =>
    /\ (out # OrigOut => req.ioctl_rc = 0 /\ ~ReplyLengthMismatch)
    /\ (pc = "done" /\ req.ioctl_rc = 0 /\ ReplyLengthMismatch =>
          rc = EIO /\ out = OrigOut)

C9_Witness ==
  /\ call.op = "ecdh_hw" /\ pc = "done" /\ stage = "coprocessor"
  /\ req.ioctl_rc = 0 /\ ReplyLengthMismatch
  /\ rc = EIO /\ out.z = "orig"

(* C10: in eckeygen_hw on the coprocessor path X and Y are copied to the   *)
(* caller's key only after the compression marker of the returned public   *)
(* key token was found to be 0x04; otherwise the call returns EIO and X    *)
(* and Y are not written.                                                  *)
C10_MarkerChecked ==
  (call.op = "eckeygen_hw" /\ stage = "coprocessor") =>
    /\ (out.X # "orig" \/ out.Y # "orig" => req.reply.compress_flag = 4)
    /\ (pc = "done" /\ req.ioctl_rc = 0 /\ ~ReplyLengthMismatch
          /\ req.reply.compress_flag # 4 =>
          rc = EIO /\ out.X = "orig" /\ out.Y = "orig")

C10_Witness ==
  /\ call.op = "eckeygen_hw" /\ pc = "done" /\ stage = "coprocessor"
  /\ req.ioctl_rc = 0 /\ ~ReplyLengthMismatch
  /\ req.reply.compress_flag # 4
  /\ rc = EIO /\ out.X = "orig" /\ out.D = "reply"

(* C11: on the coprocessor path of ecdsa_sign_hw and of ecdh_hw, when the  *)
(* private key carries no X and Y they are derived from D before the       *)
(* request is built and the request carries the derived coordinates; when  *)
(* X and Y are present nothing is derived and they are used as they are.   *)
C11_PubkeyProvided ==
  (call.op \in {"ecdsa_sign_hw", "ecdh_hw"} /\ stage = "coprocessor") =>
    /\ (~call.pubPresent /\ req.buf # "none" => req.pubDerived)
    /\ (~call.pubPresent /\ req.pub # "none" => req.pub = "derived")
    /\ (call.pubPresent => ~req.pubDerived /\ req.pub # "derived")

(* C12: when malloc of the request buffer fails, a hardware-tier entry     *)
(* point returns ENOMEM.                                                   *)
C12_AllocFailure ==
  (call.op \in HwOps /\ pc = "done" /\ req.malloc_failed) => rc = ENOMEM

(* the FIPS-mode flag is active and the library is not in FIPS mode *)
FipsDenied == fips /\ ~FIPS_mode

(* C13: a software-tier entry point returns EACCES when the FIPS-mode flag *)
(* is active and the library is not in FIPS mode, and otherwise EINVAL     *)
(* when the library does not know the curve; in both cases no library      *)
(* operation is attempted and the caller's buffers stay as they were.      *)
C13_SwPrecheck ==
  call.op \in SwOps =>
    /\ (FipsDenied \/ ~is_supported_openssl_curve(call.nid) =>
          lib.op = "none" /\ out = OrigOut)
    /\ (pc = "done" /\ FipsDenied => rc = EACCES)
    /\ (pc = "done" /\ ~FipsDenied /\ ~is_supported_openssl_curve(call.nid) =>
          rc = EINVAL)

C13_Witness ==
  /\ call.op = "eckeygen_sw" /\ pc = "done"
  /\ FipsDenied /\ ~is_supported_openssl_curve(call.nid)
  /\ rc = EACCES /\ out = OrigOut

(* C14 as stated: wherever a software-tier entry point invokes the library *)
(* operation, the key object was switched to the default method table      *)
(* before, and it is not switched after.                                   *)
C14_DefaultMethodFirst ==
  (call.op \in SwOps /\ lib.op # "none") =>
    lib.opMethod = "default" /\ ~lib.switchedAfter

(* C14 amended: the same, except that eckeygen_sw built against a library  *)
(* older than 1.1.0 makes no switch at all and generates the key with the  *)
(* method table the key object was created with.                           *)
C14_DefaultMethodAmended ==
  (call.op \in SwOps /\ lib.op # "none") =>
    /\ ~lib.switchedAfter
    /\ IF call.op = "eckeygen_sw" /\ ~OPENSSL_1_1_0
         THEN lib.opMethod = "engine" /\ lib.method = "engine"
         ELSE lib.opMethod = "default"

C14_Witness ==
  /\ call.op = "eckeygen_sw" /\ pc = "done" /\ rc = 0
  /\ OPENSSL_1_1_0
  /\ lib.op = "EC_KEY_generate_key" /\ lib.opMethod = "default"

(* the class of byte i of a buffer after the writes ws: what the last      *)
(* write that covers it left there, "orig" when no write covers it         *)
CellAt(ws, i) ==
  LET covering == {k \in 1 .. Len(ws) : ws[k].at <= i /\ i < ws[k].at + ws[k].len}
  IN IF covering = {}
       THEN "orig"
       ELSE ws[CHOOSE k \in covering : \A j \in covering : j <= k].cls

(* the width bytes from base hold one number of exactly that width, left   *)
(* padded with zeros: zeros, then the number's own bytes (or one field     *)
(* copied as a whole)                                                      *)
FixedWidth(ws, base, width) ==
  \/ \A i \in 0 .. width - 1 : CellAt(ws, base + i) = "field"
  \/ \E pad \in 0 .. width :
       \A i \in 0 .. width - 1 :
         CellAt(ws, base + i) = IF i < pad THEN "zero" ELSE "value"

(* no write of ws leaves the size bytes of the buffer *)
Within(ws, size) ==
  \A k \in 1 .. Len(ws) : ws[k].at >= 0 /\ ws[k].len >= 0
                          /\ ws[k].at + ws[k].len <= size

(* C20: whatever ecdsa_sign_sw, eckeygen_sw and eckeygen_hw with its       *)
(* instruction adapter eckeygen_cpacf write to the caller as r, s, D, X or *)
(* Y has exactly privlen bytes and is left-padded with zeros, also when    *)
(* the number's natural encoding is shorter than privlen.                  *)
C20_FixedWidth ==
  LET privlen == privlen_from_nid(call.nid)
  IN /\ (out.Dw # <<>> => FixedWidth(out.Dw, 0, privlen) /\ Within(out.Dw, privlen))
     /\ (out.Xw # <<>> => FixedWidth(out.Xw, 0, privlen) /\ Within(out.Xw, privlen))
     /\ (out.Yw # <<>> => FixedWidth(out.Yw, 0, privlen) /\ Within(out.Yw, privlen))
     /\ (out.sigw # <<>> =>
           /\ FixedWidth(out.sigw, 0, privlen)
           /\ FixedWidth(out.sigw, privlen, privlen)
           /\ Within(out.sigw, 2 * privlen))

C20_Witness ==
  /\ call.op = "eckeygen_sw" /\ pc = "done" /\ rc = 0
  /\ CellAt(out.Dw, 0) = "zero" /\ CellAt(out.Dw, 1) = "value"
  /\ CellAt(out.Xw, 0) = "value"

(* C15: once a call of get_default_domain has returned a non-negative      *)
(* domain d, every call that begins later returns d and does not open the  *)
(* file; while the cache is negative every call that has returned gave -1  *)
(* and a call that finds the cache negative goes on to open the file.      *)
C15_DomainCached ==
  /\ [](\A t \in Threads :
          /\ (thr[t].late # NoDomain =>
                /\ ~thr[t].opened
                /\ thr[t].pc \in {"check", "out"}
                /\ (thr[t].pc = "out" => thr[t].ret = thr[t].late))
          /\ (domain < 0 /\ thr[t].ret # NoDomain => thr[t].ret = 0 - 1))
  /\ [][\A t \in Threads :
          (thr[t].pc = "check" /\ thr'[t].pc # "check") =>
            IF domain >= 0 THEN thr'[t].pc = "out" /\ thr'[t].ret = domain
                           ELSE thr'[t].pc = "fopen"]_vars
  /\ [][fopens' # fopens => domain < 0 \/ \E t \in Threads : thr[t].late = NoDomain]_vars

C15_Witness ==
  \E t \in Threads :
    /\ thr[t].late = 5 /\ thr[t].pc = "out" /\ thr[t].ret = 5 /\ ~thr[t].opened
    /\ fopens = 1

(* C16: while the file holds the value v, under every interleaving each    *)
(* call returns v or -1, the cache is -1 or v, it is v once a read was     *)
(* stored, and a non-negative cache never changes.                         *)
C16_DomainRace ==
  /\ [](\A t \in Threads : thr[t].ret \in {NoDomain, 0 - 1, ap_domain})
  /\ [](domain \in {0 - 1, ap_domain})
  /\ [](\A t \in Threads : thr[t].pc = "fclose" => domain = ap_domain)
  /\ [][domain >= 0 => domain' = domain]_vars

C16_Witness ==
  /\ \E t, u \in Threads :
       /\ t # u
       /\ thr[t].pc = "out" /\ thr[t].opened /\ thr[t].ret = 5
       /\ thr[u].pc = "out" /\ thr[u].opened /\ thr[u].ret = 0 - 1
  /\ fopens >= 2
  /\ domain = 5

(* C17: every bit-length field of every key token of a request built for   *)
(* the coprocessor is 521 for the 521-bit curve and eight times the byte   *)
(* length of the curve otherwise; the fields of one token are equal.       *)
C17_BitLengths ==
  /\ req.buf = "populated" => Len(req.lens.tokens) >= 1
  /\ \A i \in DOMAIN req.lens.tokens :
       LET bitlens == req.lens.tokens[i].bitlens
       IN /\ \A f \in DOMAIN bitlens :
               bitlens[f] = IF call.nid = "P521" THEN 521
                            ELSE 8 * privlen_from_nid(call.nid)
          /\ \A f, g \in DOMAIN bitlens : bitlens[f] = bitlens[g]

C17_Witness ==
  /\ call.op = "ecdsa_verify_hw"
  /\ call.nid = "P521"
  /\ req.buf = "populated"
  /\ req.lens.tokens[1].bitlens["pub_p_bitlen"] = 521
  /\ privlen_from_nid(call.nid) = 66

RECURSIVE SumOf(_)
SumOf(s) == IF s = <<>> THEN 0 ELSE Head(s) + SumOf(Tail(s))

(* the bytes the tokens and fillers of a request occupy *)
TokenBytes(lens) ==
  SumOf([i \in DOMAIN lens.tokens |-> lens.tokens[i].ret]) + SumOf(lens.fillers)

(* the lengths of a request that do not depend on the key material *)
LengthsAddUp(lens) ==
  /\ lens.req_parml = lens.offset - CPRBXSIZE
  /\ lens.req_parml = lens.parmblock + lens.keyblock_len
  /\ lens.keyblock_len = 2 + TokenBytes(lens)
  /\ \A i \in DOMAIN lens.tokens :
       LET t == lens.tokens[i]
       IN /\ t.key_len = t.ret
          /\ t.tkn_length = sizeof.CCA_TOKEN_HDR + t.privsec_section_len
                              + t.pubsec_section_len
          /\ t.privsec_section_len = t.fixed_priv + t.privkey_bytes
          /\ t.pubsec_section_len = t.fixed_pub + t.pubkey_bytes

(* C18 as stated: in every request built the lengths add up, ECDH has two  *)
(* key tokens and four null keys, and in every token the private key       *)
(* length is privlen and the public point length is 2*privlen+1.           *)
C18_LengthsDeclared ==
  req.buf = "populated" =>
    /\ LengthsAddUp(req.lens)
    /\ (call.op = "ecdh_hw" =>
          Len(req.lens.tokens) = 2 /\ Len(req.lens.fillers) = 4)
    /\ \A i \in DOMAIN req.lens.tokens :
         LET t == req.lens.tokens[i]
         IN /\ (t.fixed_priv > 0 =>
                  t.formatted_data_len = privlen_from_nid(call.nid))
            /\ t.pub_q_bytelen = 2 * privlen_from_nid(call.nid) + 1

(* C18 amended: as above for the ECDH, sign and verify requests; the token *)
(* of a key generation request carries no key material, its private key    *)
(* length and public point length are 0 and its section lengths are the    *)
(* fixed parts alone.                                                      *)
C18_LengthsConsistent ==
  req.buf = "populated" =>
    /\ LengthsAddUp(req.lens)
    /\ (call.op = "ecdh_hw" =>
          Len(req.lens.tokens) = 2 /\ Len(req.lens.fillers) = 4)
    /\ \A i \in DOMAIN req.lens.tokens :
         LET t == req.lens.tokens[i]
             privlen == privlen_from_nid(call.nid)
         IN IF call.op = "eckeygen_hw"
              THEN /\ t.formatted_data_len = 0 /\ t.privkey_bytes = 0
                   /\ t.pub_q_bytelen = 0 /\ t.pubkey_bytes = 0
              ELSE /\ t.formatted_data_len = t.privkey_bytes
                   /\ (t.fixed_priv > 0 => t.privkey_bytes = privlen)
                   /\ t.pubkey_bytes = 2 * privlen
                   /\ t.pub_q_bytelen = t.pubkey_bytes + 1

C18_Witness ==
  /\ call.op = "ecdh_hw"
  /\ call.nid = "P384"
  /\ req.buf = "populated"
  /\ Len(req.lens.tokens) = 2
  /\ req.lens.keyblock_len = 2 + 2 * req.lens.tokens[1].key_len + 4 * sizeof.ECDH_NULLKEY
  /\ req.lens.tokens[2].pub_q_bytelen = 97

(* bit k of the number a buffer holds in little-endian and in big-endian   *)
(* byte order                                                              *)
BitLE(x, k) == BitOf(x[1 + (k \div 8)], k % 8)

BitBE(x, k) == BitOf(x[Len(x) - (k \div 8)], k % 8)

(* the bits of the caller's buffer of len bytes, 0 above its length *)
CallerBit(x, k) == IF k < 8 * Len(x) THEN BitLE(x, k) ELSE 0

(* C19: when the instruction is invoked, param holds the scalar and u as   *)
(* big-endian numbers that are the caller's little-endian values with the  *)
(* clamped bits forced (X25519: scalar bits 0, 1, 2 and 255 clear, bit 254 *)
(* set, u bit 255 clear; X448: scalar bits 0 and 1 clear, bit 447 set);    *)
(* the bytes returned are the result of the instruction read back as a     *)
(* little-endian number; the caller's scalar and u are as they were.       *)
C19_ClampedBigEndian ==
  /\ mem.pc # "none" => mem.scalar = mem.scalar0 /\ mem.u = mem.u0
  /\ (mem.pc \in {"finish", "done"} /\ mem.nid \in scalar_mulx_cpacf_curves) =>
       LET n == scalar_mulx_field_size(mem.nid)
           zero == IF mem.nid = "X25519" THEN {0, 1, 2, 255} ELSE {0, 1}
           one == IF mem.nid = "X25519" THEN {254} ELSE {447}
           uzero == IF mem.nid = "X25519" THEN {255} ELSE {}
       IN /\ Len(mem.at_pcc.scalar) = n /\ Len(mem.at_pcc.u) = n
          /\ \A k \in 0 .. (8 * n - 1) :
               /\ BitBE(mem.at_pcc.scalar, k) =
                    IF k \in zero THEN 0
                    ELSE IF k \in one THEN 1
                    ELSE CallerBit(mem.scalar0, k)
               /\ BitBE(mem.at_pcc.u, k) =
                    IF k \in uzero THEN 0 ELSE CallerBit(mem.u0, k)
  /\ (mem.pc = "done" /\ mem.nid \in scalar_mulx_cpacf_curves) =>
       /\ Len(mem.res_u) = privlen_from_nid(mem.nid)
       /\ \A k \in 0 .. (8 * Len(mem.res_u) - 1) :
            BitLE(mem.res_u, k) = BitBE(mem.at_pcc.res_u, k)

C19_Witness ==
  /\ mem.pc = "done"
  /\ mem.nid = "X25519"
  /\ mem.rc = 0
  /\ mem.scalar0[1] = 255 /\ mem.scalar0[32] = 165
  /\ mem.at_pcc.scalar[32] = 248 /\ mem.at_pcc.scalar[1] = 101
  /\ mem.u0[32] = 255 /\ mem.at_pcc.u[1] = 127
  /\ mem.res_u[1] = mem.at_pcc.res_u[32]
  /\ mem.res_u[1] # mem.res_u[32]

(* C30: get_default_domain closes every file it opens before it returns:   *)
(* no thread that is outside the function holds the file open.             *)
C30_FileClosed ==
  \A t \in Threads : thr[t].pc = "out" => ~thr[t].f

(* C29: while ica_offload_enabled is set, no hardware-tier entry point     *)
(* enters the instruction stage or invokes an instruction adapter.         *)
C29_OffloadForced ==
  (ica_offload_enabled /\ call.op \in HwOps) =>
    stage # "instruction" /\ cpu.adapter = "none" /\ cpu.invocations = 0

C24_TriState ==
  (cpu.returned /\ cpu.adapter \in {"scalar_mul_cpacf", "scalar_mulx_cpacf",
                                    "ecdsa_sign_cpacf", "ecdsa_verify_cpacf"}) =>
    LET curves == CASE cpu.adapter = "scalar_mul_cpacf" -> scalar_mul_cpacf_curves
                    [] cpu.adapter = "scalar_mulx_cpacf" -> scalar_mulx_cpacf_curves
                    [] cpu.adapter = "ecdsa_sign_cpacf" -> ecdsa_sign_cpacf_curves
                    [] OTHER -> ecdsa_verify_cpacf_curves
    IN /\ cpu.rc \in {0, EINVAL, EIO}
       /\ (cpu.rc = EINVAL <=> call.nid \notin curves)
       /\ (cpu.rc = EINVAL => cpu.invocations = 0)

(* C28: every length or offset taken from the reply is bounded before it   *)
(* is used: the copies of ecdh_hw and ecdsa_sign_hw have the curve's       *)
(* length, and the public-key token that eckeygen_hw reads at              *)
(* privsec + section_len lies inside the reply half.                       *)
C28_ReplyReadsBounded ==
  LET privlen == privlen_from_nid(call.nid)
  IN /\ (call.op = "ecdh_hw" /\ out.z = "reply" => req.reply.key_len - 4 = privlen)
     /\ (call.op = "ecdsa_sign_hw" /\ out.sig = "reply" =>
           req.reply.vud_len - 8 = 2 * privlen)
     /\ (call.op = "eckeygen_hw" /\ pc = "eckeygen_ret" /\ req.ioctl_rc = 0
           /\ req.reply.formatted_data_len = privlen =>
             req.reply.section_len + sizeof.ECC_PUBLIC_KEY_TOKEN + 2 * privlen
               =< CPRBXSIZE + PARMBSIZE)

(* C27: the request that make_ecdsa_sign_request or                        *)
(* make_ecdsa_verify_request writes ends inside the request half of the    *)
(* allocation, the first CPRBXSIZE + PARMBSIZE bytes.                      *)
C27_RequestInHalf ==
  (call.op \in {"ecdsa_sign_hw", "ecdsa_verify_hw"} /\ req.buf = "populated") =>
    req.lens.offset =< CPRBXSIZE + PARMBSIZE

(* C25: a successful ed25519_derive_pub or ed448_derive_pub returns 32 or  *)
(* 57 bytes; bit 7 of byte 0 is the least significant bit of the           *)
(* x-coordinate and every other bit is the bit of the y-coordinate.        *)
C25_ParityInTopBit ==
  (mem.pc = "done" /\ mem.rc = 0 /\ mem.nid \in {"ED25519", "ED448"}) =>
    LET len == Len(mem.pub)
    IN /\ len = (IF mem.nid = "ED25519" THEN 32 ELSE 57)
       /\ BitOf(mem.pub[1], 7) = BitOf(mem.x[Len(mem.x)], 0)
       /\ AND(mem.pub[1], 127) = AND(mem.y[1], 127)
       /\ \A i \in 2 .. len : mem.pub[i] = mem.y[i]

C25_Witness ==
  /\ mem.pc = "done" /\ mem.rc = 0 /\ mem.nid = "ED448"
  /\ BitOf(mem.x[57], 0) = 1 /\ mem.x[2] = 0
  /\ mem.pub[1] = 128 /\ mem.y[57] = 165

C21_SignVerify ==
  (mem.pc = "done" /\ mem.nid \in {"P256", "P384", "P521"} /\ mem.rc = 0) =>
    IF mem.flip[1] = 0 THEN mem.vrc = 0 ELSE mem.vrc = EFAULT

C21_Witness ==
  /\ mem.pc = "done" /\ mem.nid = "P521" /\ mem.hashlen = 64 /\ mem.rc = 0
  /\ mem.flip = <<67, 7>>
  /\ mem.vrc = EFAULT

(* C22: in the key exchange over scalar_mulx_cpacf the value that a_priv   *)
(* gives on B's public value equals the value that b_priv gives on A's     *)
(* public value.                                                           *)
C22_KexSymmetric ==
  (mem.pc = "done" /\ mem.rc = 0 /\ mem.nid \in scalar_mulx_cpacf_curves
     /\ mem.kex.step = 4) =>
    mem.res_u = mem.kex.res[3]

C22_Witness ==
  /\ mem.pc = "done" /\ mem.rc = 0 /\ mem.nid = "X25519" /\ mem.kex.step = 4
  /\ mem.kex.a_priv # mem.kex.b_priv
  /\ mem.kex.res[1] # mem.kex.res[2]
  /\ mem.kex.res[1][1] > 127
  /\ mem.res_u[1] > 0
  /\ mem.res_u # mem.kex.res[1] /\ mem.res_u # mem.kex.res[2]
====
